---- MODULE Spec2Model ----
(***************************************************************************)
(* SuperAgent: the streaming tool-call parser (response_parser.py) and the *)
(* conversation store (context_manager/context_manager.py).                *)
(*                                                                         *)
(* Strings are sequences of one-character strings, so that endswith and    *)
(* slicing are computed on characters as Python computes them.             *)
(***************************************************************************)
EXTENDS Integers, Sequences, FiniteSets

(***************************************************************************)
(* Bounds of the model.                                                    *)
(***************************************************************************)
\* longest model response, counted in tokens of ResponseTokens
MaxTokens == 4

(***************************************************************************)
(* Python helpers.                                                         *)
(***************************************************************************)
\* Python's None (no tool or parameter name is the empty string)
None == << >>

\* s.endswith(t)
EndsWith(s, t) ==
    /\ Len(t) <= Len(s)
    /\ SubSeq(s, Len(s) - Len(t) + 1, Len(s)) = t

\* s[a:b] for 0 <= a and an end offset b already made absolute
PySlice(s, a, b) ==
    LET e == IF b < 0 THEN 0 ELSE IF b > Len(s) THEN Len(s) ELSE b
    IN  IF a >= e THEN << >> ELSE SubSeq(s, a + 1, e)

\* f"<{name}>" and f"</{name}>"
StartTag(name) == <<"<">> \o name \o <<">">>
EndTag(name) == <<"<", "/">> \o name \o <<">">>

\* a Python dict, in insertion order, as a sequence of [k, v] entries
DictHas(d, k) == \E i \in 1..Len(d) : d[i].k = k
DictGet(d, k) == d[CHOOSE i \in 1..Len(d) : d[i].k = k].v
\* d[k] = v: an existing key keeps its position, a new key goes last
DictSet(d, k, v) ==
    IF DictHas(d, k)
    THEN [i \in 1..Len(d) |-> IF d[i].k = k THEN [k |-> k, v |-> v] ELSE d[i]]
    ELSE Append(d, [k |-> k, v |-> v])

SetMin(S) == CHOOSE x \in S : \A y \in S : x <= y

(***************************************************************************)
(* The tool vocabulary: names and declared parameters of tools/*.py.       *)
(***************************************************************************)
write_to_file == <<"w", "r", "i", "t", "e", "_", "t", "o", "_", "f", "i", "l", "e">>
read_file == <<"r", "e", "a", "d", "_", "f", "i", "l", "e">>
replace_in_file == <<"r", "e", "p", "l", "a", "c", "e", "_", "i", "n", "_", "f", "i", "l", "e">>
shell == <<"s", "h", "e", "l", "l">>
ask_user == <<"a", "s", "k", "_", "u", "s", "e", "r">>
attempt_completion == <<"a", "t", "t", "e", "m", "p", "t", "_", "c", "o", "m", "p", "l", "e", "t", "i", "o", "n">>
browser_actions == <<"b", "r", "o", "w", "s", "e", "r", "_", "a", "c", "t", "i", "o", "n", "s">>
list_directory == <<"l", "i", "s", "t", "_", "d", "i", "r", "e", "c", "t", "o", "r", "y">>
glob_directory == <<"g", "l", "o", "b", "_", "d", "i", "r", "e", "c", "t", "o", "r", "y">>
grep_search_text == <<"g", "r", "e", "p", "_", "s", "e", "a", "r", "c", "h", "_", "t", "e", "x", "t">>
path == <<"p", "a", "t", "h">>
content == <<"c", "o", "n", "t", "e", "n", "t">>
diff == <<"d", "i", "f", "f">>
command == <<"c", "o", "m", "m", "a", "n", "d">>
requires_approval == <<"r", "e", "q", "u", "i", "r", "e", "s", "_", "a", "p", "p", "r", "o", "v", "a", "l">>
question == <<"q", "u", "e", "s", "t", "i", "o", "n">>
result == <<"r", "e", "s", "u", "l", "t">>
query == <<"q", "u", "e", "r", "y">>
url == <<"u", "r", "l">>
pattern == <<"p", "a", "t", "t", "e", "r", "n">>
include == <<"i", "n", "c", "l", "u", "d", "e">>

\* params = {"required": [...], "optional": [...]}
DictParams(req, opt) == [kind |-> "dict", required |-> req, optional |-> opt]
\* params = [...], a plain list (tools/user.py)
ListParams(items) == [kind |-> "list", items |-> items]

\* TOOLS_DICT, in declaration order
TOOLS_DICT == <<
    [name |-> write_to_file,      params |-> DictParams(<<path, content>>, << >>)],
    [name |-> read_file,          params |-> DictParams(<<path>>, << >>)],
    [name |-> replace_in_file,    params |-> DictParams(<<path, diff>>, << >>)],
    [name |-> shell,              params |-> DictParams(<<command, requires_approval>>, << >>)],
    [name |-> ask_user,           params |-> ListParams(<<question>>)],
    [name |-> attempt_completion, params |-> ListParams(<<result>>)],
    [name |-> browser_actions,    params |-> DictParams(<< >>, <<query, url>>)],
    [name |-> list_directory,     params |-> DictParams(<<path>>, << >>)],
    [name |-> glob_directory,     params |-> DictParams(<<path, pattern>>, << >>)],
    [name |-> grep_search_text,   params |-> DictParams(<<path, pattern>>, <<include>>)] >>

(***************************************************************************)
(* response_parser.py                                                      *)
(***************************************************************************)
\* ContentType
TOOL_CALL == 1
TEXT_CHUNK == 2

TextBlock(text) == [type |-> TEXT_CHUNK, content |-> text]
ToolBlock(tool, params) == [type |-> TOOL_CALL, tool |-> tool, params |-> params]

VARIABLES
    response,                      \* the argument of parse_ai_response
    ind,                           \* number of characters consumed by the for loop
    accumulator,
    current_tool,
    current_tool_required_params,  \* the declared parameter names, in order
    param_start_index,
    current_param,
    all_params,
    content_blocks,
    pc,                            \* "scan", "returned" or "raised"
    seg_start,                     \* offset in response where the segment being built starts
    spans                          \* spans[i] = <<from, to>>: the input span of content_blocks[i]

parserVars == <<response, ind, accumulator, current_tool, current_tool_required_params,
                param_start_index, current_param, all_params, content_blocks, pc,
                seg_start, spans>>

\* the locals of parse_ai_response
parseLocals == <<ind, accumulator, current_tool, current_tool_required_params,
                 param_start_index, current_param, all_params, content_blocks, pc,
                 seg_start, spans>>

\* the pieces model responses are made of
ResponseTokens == {
    <<"x">>,
    StartTag(write_to_file), EndTag(write_to_file),
    StartTag(path), EndTag(path),
    StartTag(content),
    StartTag(read_file),
    StartTag(ask_user) }

RECURSIVE Flatten(_)
Flatten(ts) == IF ts = << >> THEN << >> ELSE Head(ts) \o Flatten(Tail(ts))

Responses == UNION { {Flatten(ts) : ts \in [1..n -> ResponseTokens]} : n \in 0..MaxTokens }

\* how many tool calls a well-formed response holds
MaxCalls == 2

\* a tool call written as the parser reads it (and as the tests write it):
\* <tool><param>value</param>...</tool>
ParamText(arg) == StartTag(arg.k) \o arg.v \o EndTag(arg.k)

RECURSIVE ParamsText(_)
ParamsText(args) ==
    IF args = << >> THEN << >> ELSE ParamText(Head(args)) \o ParamsText(Tail(args))

CallText(call) == StartTag(call.tool_name) \o ParamsText(call.args) \o EndTag(call.tool_name)

\* well-formed calls of registered tools: every argument declared and closed, every
\* value free of "<"
WellFormedCalls ==
    {[tool_name |-> read_file, args |-> << >>],
     [tool_name |-> read_file, args |-> <<[k |-> path, v |-> <<"f">>]>>],
     [tool_name |-> write_to_file,
      args |-> <<[k |-> path, v |-> <<"f">>], [k |-> content, v |-> <<"a", "\n", "b">>]>>],
     [tool_name |-> ask_user, args |-> <<[k |-> question, v |-> <<"q", "?">>]>>]}

\* non-empty texts free of "<"
Texts == {<<"x">>, <<" ", "x", "\n">>}

\* responses T0 C1 T1 ... Cn Tn
Interleavings ==
    UNION {[texts : [1..(n + 1) -> Texts], calls : [1..n -> WellFormedCalls]] : n \in 0..MaxCalls}

RECURSIVE InterleavedFrom(_, _)
InterleavedFrom(inter, i) ==
    IF i > Len(inter.calls) THEN << >>
    ELSE CallText(inter.calls[i]) \o inter.texts[i + 1] \o InterleavedFrom(inter, i + 1)

InterleavedText(inter) == inter.texts[1] \o InterleavedFrom(inter, 1)

WellFormedResponses ==
    {InterleavedText(inter) : inter \in Interleavings}
    \cup {CallText(call) : call \in WellFormedCalls}

ParserInit ==
    /\ response \in Responses \cup WellFormedResponses
    /\ ind = 0
    /\ accumulator = << >>
    /\ current_tool = None
    /\ current_tool_required_params = << >>
    /\ param_start_index = -1
    /\ current_param = None
    /\ all_params = << >>
    /\ content_blocks = << >>
    /\ pc = "scan"
    /\ seg_start = 0
    /\ spans = << >>

\* one iteration of the for loop with no tool open
ScanOutside ==
    /\ pc = "scan"
    /\ ind < Len(response)
    /\ current_tool = None
    /\ LET acc == Append(accumulator, response[ind + 1])
           hits == {i \in 1..Len(TOOLS_DICT) : EndsWith(acc, StartTag(TOOLS_DICT[i].name))}
       IN  IF hits = {}
           THEN /\ accumulator' = acc
                /\ UNCHANGED <<current_tool, current_tool_required_params, content_blocks,
                               pc, seg_start, spans>>
           ELSE LET tool == TOOLS_DICT[SetMin(hits)]
                    start_tag == StartTag(tool.name)
                    has_text == Len(acc) > Len(start_tag)
                IN  /\ content_blocks' =
                          IF has_text
                          THEN Append(content_blocks,
                                      TextBlock(PySlice(acc, 0, Len(acc) - Len(start_tag))))
                          ELSE content_blocks
                    /\ spans' =
                          IF has_text
                          THEN Append(spans, <<seg_start, ind + 1 - Len(start_tag)>>)
                          ELSE spans
                    /\ seg_start' = ind + 1 - Len(start_tag)
                    /\ accumulator' = IF has_text THEN << >> ELSE acc
                    /\ current_tool' = tool.name
                    /\ IF tool.params.kind = "dict"
                       THEN /\ current_tool_required_params' =
                                  tool.params.required \o tool.params.optional
                            /\ pc' = "scan"
                       ELSE \* list indices must be integers: TypeError
                            /\ pc' = "raised"
                            /\ UNCHANGED current_tool_required_params
    /\ ind' = ind + 1
    /\ UNCHANGED <<response, param_start_index, current_param, all_params>>

\* a scan step that would treat the start tag of a tool met inside an open tool as
\* the start of a new call
ScanInside_ReopensTool ==
    /\ pc = "scan"
    /\ ind < Len(response)
    /\ current_tool # None
    /\ LET acc == Append(accumulator, response[ind + 1])
           hits == {i \in 1..Len(TOOLS_DICT) : EndsWith(acc, StartTag(TOOLS_DICT[i].name))}
       IN  IF hits = {}
           THEN /\ accumulator' = acc
                /\ UNCHANGED <<content_blocks, spans, seg_start, current_tool>>
           ELSE /\ content_blocks' = Append(content_blocks, ToolBlock(current_tool, all_params))
                /\ spans' = Append(spans, <<seg_start, ind + 1>>)
                /\ seg_start' = ind + 1
                /\ current_tool' = TOOLS_DICT[SetMin(hits)].name
                /\ accumulator' = << >>
    /\ ind' = ind + 1
    /\ UNCHANGED <<response, pc, current_tool_required_params, param_start_index,
                   current_param, all_params>>

\* one iteration of the for loop with a tool open
ScanInside ==
    /\ pc = "scan"
    /\ ind < Len(response)
    /\ current_tool # None
    /\ LET acc == Append(accumulator, response[ind + 1])
           closes == current_param # None /\ EndsWith(acc, EndTag(current_param))
           opens == {i \in 1..Len(current_tool_required_params) :
                        EndsWith(acc, StartTag(current_tool_required_params[i]))}
           params1 == IF closes
                      THEN DictSet(all_params, current_param,
                                   PySlice(acc, param_start_index,
                                           Len(acc) - Len(EndTag(current_param))))
                      ELSE all_params
           start1 == IF closes THEN -1
                     ELSE IF opens # {} THEN Len(acc) ELSE param_start_index
           param1 == IF closes THEN None
                     ELSE IF opens # {} THEN current_tool_required_params[SetMin(opens)]
                     ELSE current_param
       IN  IF EndsWith(acc, EndTag(current_tool))
           THEN /\ content_blocks' = Append(content_blocks, ToolBlock(current_tool, params1))
                /\ spans' = Append(spans, <<seg_start, ind + 1>>)
                /\ seg_start' = ind + 1
                /\ current_tool' = None
                /\ current_tool_required_params' = << >>
                /\ param_start_index' = -1
                /\ current_param' = None
                /\ all_params' = << >>
                /\ accumulator' = << >>
           ELSE /\ accumulator' = acc
                /\ param_start_index' = start1
                /\ current_param' = param1
                /\ all_params' = params1
                /\ UNCHANGED <<content_blocks, spans, seg_start, current_tool,
                               current_tool_required_params>>
    /\ ind' = ind + 1
    /\ UNCHANGED <<response, pc>>

\* after the loop: the incomplete tool call or the trailing text, then return
Finish ==
    /\ pc = "scan"
    /\ ind = Len(response)
    /\ IF Len(accumulator) > 0 /\ current_tool # None
       THEN LET params1 == IF current_param # None
                           THEN DictSet(all_params, current_param,
                                        PySlice(accumulator, param_start_index,
                                                Len(accumulator)))
                           ELSE all_params
            IN  /\ all_params' = params1
                /\ content_blocks' = Append(content_blocks, ToolBlock(current_tool, params1))
                /\ spans' = Append(spans, <<seg_start, Len(response)>>)
       ELSE IF Len(accumulator) > 0
       THEN /\ content_blocks' = Append(content_blocks, TextBlock(accumulator))
            /\ spans' = Append(spans, <<seg_start, Len(response)>>)
            /\ UNCHANGED all_params
       ELSE UNCHANGED <<content_blocks, spans, all_params>>
    /\ pc' = "returned"
    /\ UNCHANGED <<response, ind, accumulator, current_tool, current_tool_required_params,
                   param_start_index, current_param, seg_start>>

\* parse_ai_response as a function of its argument, for the callers of the parser:
\* the locals before the loop, one loop iteration, the code after the loop
ParserLocals ==
    [accumulator |-> << >>, current_tool |-> None, current_tool_required_params |-> << >>,
     param_start_index |-> -1, current_param |-> None, all_params |-> << >>,
     content_blocks |-> << >>, raised |-> FALSE]

LoopBody(st, ch) ==
    LET acc == Append(st.accumulator, ch)
    IN  IF st.current_tool = None
        THEN LET hits == {i \in 1..Len(TOOLS_DICT) : EndsWith(acc, StartTag(TOOLS_DICT[i].name))}
             IN  IF hits = {}
                 THEN [st EXCEPT !.accumulator = acc]
                 ELSE LET tool == TOOLS_DICT[SetMin(hits)]
                          start_tag == StartTag(tool.name)
                          has_text == Len(acc) > Len(start_tag)
                      IN  [st EXCEPT
                              !.content_blocks =
                                  IF has_text
                                  THEN Append(@, TextBlock(PySlice(acc, 0,
                                                                   Len(acc) - Len(start_tag))))
                                  ELSE @,
                              !.accumulator = IF has_text THEN << >> ELSE acc,
                              !.current_tool = tool.name,
                              !.current_tool_required_params =
                                  IF tool.params.kind = "dict"
                                  THEN tool.params.required \o tool.params.optional
                                  ELSE @,
                              !.raised = tool.params.kind # "dict"]
        ELSE LET closes == st.current_param # None /\ EndsWith(acc, EndTag(st.current_param))
                 opens == {i \in 1..Len(st.current_tool_required_params) :
                              EndsWith(acc, StartTag(st.current_tool_required_params[i]))}
                 params1 == IF closes
                            THEN DictSet(st.all_params, st.current_param,
                                         PySlice(acc, st.param_start_index,
                                                 Len(acc) - Len(EndTag(st.current_param))))
                            ELSE st.all_params
                 start1 == IF closes THEN -1
                           ELSE IF opens # {} THEN Len(acc) ELSE st.param_start_index
                 param1 == IF closes THEN None
                           ELSE IF opens # {}
                           THEN st.current_tool_required_params[SetMin(opens)]
                           ELSE st.current_param
             IN  IF EndsWith(acc, EndTag(st.current_tool))
                 THEN [ParserLocals EXCEPT
                          !.content_blocks =
                              Append(st.content_blocks, ToolBlock(st.current_tool, params1))]
                 ELSE [st EXCEPT !.accumulator = acc, !.param_start_index = start1,
                                 !.current_param = param1, !.all_params = params1]

RECURSIVE LoopFrom(_, _, _)
LoopFrom(st, text, i) ==
    IF st.raised \/ i > Len(text) THEN st ELSE LoopFrom(LoopBody(st, text[i]), text, i + 1)

AfterLoop(st) ==
    IF Len(st.accumulator) > 0 /\ st.current_tool # None
    THEN Append(st.content_blocks,
                ToolBlock(st.current_tool,
                          IF st.current_param # None
                          THEN DictSet(st.all_params, st.current_param,
                                       PySlice(st.accumulator, st.param_start_index,
                                               Len(st.accumulator)))
                          ELSE st.all_params))
    ELSE IF Len(st.accumulator) > 0
    THEN Append(st.content_blocks, TextBlock(st.accumulator))
    ELSE st.content_blocks

\* [outcome, content_blocks]: the list returned, or the TypeError of line 34
ParseAiResponse(text) ==
    LET st == LoopFrom(ParserLocals, text, 1)
    IN  IF st.raised
        THEN [outcome |-> "raised", content_blocks |-> << >>]
        ELSE [outcome |-> "returned", content_blocks |-> AfterLoop(st)]

(***************************************************************************)
(* context_manager/context_manager.py                                      *)
(***************************************************************************)
\* number of add_message calls the model makes on one store
MaxMessages == 6

IsSpace(c) == c \in {" ", "\n", "\t"}

\* s.strip()
Strip(s) ==
    LET solid == {i \in 1..Len(s) : ~IsSpace(s[i])}
    IN  IF solid = {} THEN << >>
        ELSE SubSeq(s, SetMin(solid), CHOOSE i \in solid : \A j \in solid : j <= i)

\* len(s.split())
WordCount(s) ==
    Cardinality({i \in 1..Len(s) : ~IsSpace(s[i]) /\ (i = 1 \/ IsSpace(s[i - 1]))})

VARIABLES
    compress_on_add,
    context_history,            \* the ordered dict {id: message}, as the sequence of its values
    pending_failed_tool_calls,  \* sequence of <<ai_msg_id, tool_msg_id>>
    uncompressed_tokens,
    compressed_tokens,
    last_message_id,            \* _last_message_id; NoId for None
    next_id,                    \* number of different ids generated so far
    repeat_id,                  \* NoId, or the earlier id that the next uuid4 call repeats
    call_log,                   \* one entry per add_message call: its message type, how it
                                \* ended and the answers the llm gave in it
    full_context,               \* what the last get_context call since the last
                                \* add_message returned
    reads                       \* number of get_context calls since the last add_message

\* the fields of the ContextManager and the log of its add_message calls
addVars == <<compress_on_add, context_history, pending_failed_tool_calls,
             uncompressed_tokens, compressed_tokens, last_message_id, next_id, repeat_id,
             call_log>>

storeVars == <<addVars, full_context, reads>>

NoId == 0

\* _generate_message_id: the first 8 hex digits of a uuid4, either a value never drawn
\* before or, when the draw repeats, an id handed out earlier
GenerateMessageId == IF repeat_id = NoId THEN next_id + 1 ELSE repeat_id

HistoryIds(history) == {history[i].id : i \in 1..Len(history)}
\* self.context_history[id]
Message(history, id) == history[CHOOSE i \in 1..Len(history) : history[i].id = id]

\* metadata = {}: each optional key is the set holding its value, empty while unset
EmptyMetadata == [tool_call |-> {}, tool_successful |-> {}, is_response_to |-> {}]

\* a tool call {"tool_name": ..., "args": {...}} as Agent.invoke builds it
ReadFileCall == [tool_name |-> read_file, args |-> <<[k |-> path, v |-> <<"f">>]>>]
ListDirectoryCall == [tool_name |-> list_directory, args |-> <<[k |-> path, v |-> <<"d">>]>>]

\* the messages the model passes to add_message
MessageInputs ==
    {[type |-> "system", content |-> <<"s">>, tool_calls |-> << >>],
     [type |-> "user", content |-> <<"u", " ", "u">>, tool_calls |-> << >>],
     [type |-> "tool", content |-> <<"o", "k">>, tool_calls |-> << >>]}
    \cup
    {[type |-> "ai", content |-> c, tool_calls |-> tc] :
        c \in {<<"a", " ", "b", " ", "c">>},
        tc \in {<< >>, <<ReadFileCall>>, <<ReadFileCall, ListDirectoryCall>>}}
    \cup
    {[type |-> "ai", content |-> << >>, tool_calls |-> <<ReadFileCall>>]}

\* how many add_message calls a run of ContextSpec makes
MaxAppends == 4

\* the messages passed to add_message in ContextSpec: those of MessageInputs and an
\* ai message of white space
ContextInputs ==
    MessageInputs \cup {[type |-> "ai", content |-> <<" ">>, tool_calls |-> << >>]}

\* response.content of the llm's answer to the compression prompt
Summaries == {<<"a", "\n">>}

\* a _compress_content that would skip the llm for the empty string only
CompressContent_SummarizesBlank(original_content, summary) ==
    IF ~compress_on_add \/ original_content = << >> THEN original_content ELSE Strip(summary)

\* _compress_content
CompressContent(original_content, summary) ==
    IF ~compress_on_add \/ Strip(original_content) = << >>
    THEN original_content
    ELSE Strip(summary)

\* lines 75-79: the answers _compress_content gets from self.llm.invoke (none when it
\* returns the content at line 76)
SummariesAsked(original_content, summary) ==
    IF ~compress_on_add \/ Strip(original_content) = << >> THEN {} ELSE {summary}

\* lines 157-160: the ids added to to_delete_ids for the ledger entries from index i on
RECURSIVE ToDeleteFrom(_, _)
ToDeleteFrom(pending, i) ==
    IF i > Len(pending) THEN << >>
    ELSE (IF i # 1 THEN <<pending[i][1]>> ELSE << >>)
         \o <<pending[i][2]>> \o ToDeleteFrom(pending, i + 1)

\* mutants of ToDeleteIds: the first pair kept whole; no assistant turn kept; only the
\* assistant turns deleted
ToDeleteIds_KeepsFirstPair(pending) == ToDeleteFrom(pending, 2)
ToDeleteIds_WholeLedger(pending) ==
    IF pending = << >> THEN << >> ELSE <<pending[1][1]>> \o ToDeleteFrom(pending, 1)
ToDeleteIds_AssistantsOnly(pending) ==
    IF pending = << >> THEN << >> ELSE [i \in 1..(Len(pending) - 1) |-> pending[i + 1][1]]

\* lines 156-160: the list to_delete_ids built once the goal is achieved
ToDeleteIds(pending) == ToDeleteFrom(pending, 1)

\* a deletion that would delete nothing when an id of the list is missing at its turn
DeleteIds_GivesUpOnMissing(history, ids) ==
    IF \/ \E i \in 1..Len(ids) : ids[i] \notin HistoryIds(history)
       \/ \E i, j \in 1..Len(ids) : i # j /\ ids[i] = ids[j]
    THEN history
    ELSE SelectSeq(history, LAMBDA m : \A i \in 1..Len(ids) : m.id # ids[i])

\* lines 163-165: for id in to_delete_ids, del self.context_history[id] if id is present
RECURSIVE DeleteIds(_, _)
DeleteIds(history, ids) ==
    IF ids = << >> THEN history
    ELSE DeleteIds(IF Head(ids) \in HistoryIds(history)
                   THEN SelectSeq(history, LAMBDA m : m.id # Head(ids))
                   ELSE history,
                   Tail(ids))

\* lines 163-165: how many ids of the list are no longer in the history at their turn
RECURSIVE SkippedIds(_, _)
SkippedIds(history, ids) ==
    IF ids = << >> THEN 0
    ELSE IF Head(ids) \in HistoryIds(history)
    THEN SkippedIds(SelectSeq(history, LAMBDA m : m.id # Head(ids)), Tail(ids))
    ELSE 1 + SkippedIds(history, Tail(ids))

\* mutants of PendingAfterResponse: an unresolved success is not tracked; a success is
\* tracked also when nothing is pending
PendingAfterResponse_DropsUnresolved(pending, ai_id, msg_id, is_successful, goal_achieved) ==
    IF ~is_successful THEN Append(pending, <<ai_id, msg_id>>)
    ELSE IF Len(pending) > 0
    THEN IF goal_achieved THEN << >> ELSE pending
    ELSE pending
PendingAfterResponse_TracksEverySuccess(pending, ai_id, msg_id, is_successful, goal_achieved) ==
    IF ~is_successful THEN Append(pending, <<ai_id, msg_id>>)
    ELSE IF goal_achieved THEN << >> ELSE Append(pending, <<ai_id, msg_id>>)

\* lines 129-170: the ledger after a linked tool response
PendingAfterResponse(pending, ai_id, msg_id, is_successful, goal_achieved) ==
    IF ~is_successful THEN Append(pending, <<ai_id, msg_id>>)
    ELSE IF Len(pending) > 0
    THEN IF goal_achieved THEN << >> ELSE Append(pending, <<ai_id, msg_id>>)
    ELSE pending

\* a store that would prune on a failed result as well
HistoryAfterResponse_PrunesOnFailure(history, pending, is_successful, goal_achieved) ==
    IF Len(pending) > 0 /\ (is_successful => goal_achieved)
    THEN DeleteIds(history, ToDeleteIds(pending))
    ELSE history

\* a pruning that would delete the answered ai message as well
HistoryAfterResponse_DropsAnswered(history, pending, is_successful, goal_achieved) ==
    IF is_successful /\ Len(pending) > 0 /\ goal_achieved
    THEN DeleteIds(history, Append(ToDeleteIds(pending), history[Len(history)].id))
    ELSE history

\* lines 132-165: the history (before the new message is stored) after a linked tool response
HistoryAfterResponse(history, pending, is_successful, goal_achieved) ==
    IF is_successful /\ Len(pending) > 0 /\ goal_achieved
    THEN DeleteIds(history, ToDeleteIds(pending))
    ELSE history

MarkSuccessful_AllAssistants(history, ai_id, is_successful) ==
    [i \in 1..Len(history) |->
        IF history[i].type = "ai"
        THEN [history[i] EXCEPT !.metadata.tool_successful = {is_successful}]
        ELSE history[i]]
\* last_ai_message["metadata"]["tool_successful"] = is_successful
MarkSuccessful(history, ai_id, is_successful) ==
    [i \in 1..Len(history) |->
        IF history[i].id = ai_id
        THEN [history[i] EXCEPT !.metadata.tool_successful = {is_successful}]
        ELSE history[i]]

\* lines 172-177: store the new message, count its words, move the last-message pointer
\* the words of the original and of the compressed contents of a history
RECURSIVE OriginalWords(_)
OriginalWords(history) ==
    IF history = << >> THEN 0
    ELSE WordCount(Head(history).original_content) + OriginalWords(Tail(history))
RECURSIVE CompressedWords(_)
CompressedWords(history) ==
    IF history = << >> THEN 0
    ELSE WordCount(Head(history).compressed_content) + CompressedWords(Tail(history))

\* a store whose counters would count the words of the messages it still holds
StoreMessage_RecountsHistory(history, new_message) ==
    /\ context_history' = Append(history, new_message)
    /\ uncompressed_tokens' = OriginalWords(Append(history, new_message))
    /\ compressed_tokens' = CompressedWords(Append(history, new_message))
    /\ last_message_id' = new_message.id

\* lines 172-177; assigning to a key the dict already holds replaces the value in place
StoreMessage(history, new_message) ==
    /\ context_history' =
          IF new_message.id \in HistoryIds(history)
          THEN [i \in 1..Len(history) |->
                   IF history[i].id = new_message.id THEN new_message ELSE history[i]]
          ELSE Append(history, new_message)
    /\ uncompressed_tokens' = uncompressed_tokens + WordCount(new_message.original_content)
    /\ compressed_tokens' = compressed_tokens + WordCount(new_message.compressed_content)
    /\ last_message_id' = new_message.id

NewMessage(msg_id, message) ==
    [id |-> msg_id, type |-> message.type, original_content |-> message.content,
     compressed_content |-> message.content, metadata |-> EmptyMetadata]

LogEntry(message, msg_id, outcome, success, goal) ==
    [type |-> message.type, has_call |-> message.tool_calls # << >>, msg_id |-> msg_id,
     outcome |-> outcome, success |-> success, goal |-> goal, summary |-> {},
     skipped |-> 0]

\* lines 120-122: the last message is an ai message
LastIsAi ==
    IF last_message_id = NoId THEN FALSE
    ELSE Message(context_history, last_message_id).type = "ai"

\* add_message with a system or user message
AddPlain(message) ==
    /\ message.type \in {"system", "user"}
    /\ StoreMessage(context_history, NewMessage(GenerateMessageId, message))
    /\ call_log' = Append(call_log, LogEntry(message, GenerateMessageId, "ok", {}, {}))
    /\ UNCHANGED pending_failed_tool_calls

\* an add_message that would keep the last tool call of an ai message
AddAi_StoresLastCall(message, summary) ==
    /\ message.type = "ai"
    /\ StoreMessage(context_history,
           [NewMessage(GenerateMessageId, message) EXCEPT
               !.compressed_content = CompressContent(message.content, summary),
               !.metadata.tool_call =
                   IF message.tool_calls # << >>
                   THEN {message.tool_calls[Len(message.tool_calls)]} ELSE {}])
    /\ call_log' = Append(call_log,
           [LogEntry(message, GenerateMessageId, "ok", {}, {}) EXCEPT
               !.summary = SummariesAsked(message.content, summary)])
    /\ UNCHANGED pending_failed_tool_calls

\* add_message with an ai message
AddAi(message, summary) ==
    /\ message.type = "ai"
    /\ StoreMessage(context_history,
           [NewMessage(GenerateMessageId, message) EXCEPT
               !.compressed_content = CompressContent(message.content, summary),
               !.metadata.tool_call =
                   IF message.tool_calls # << >> THEN {message.tool_calls[1]} ELSE {}])
    /\ call_log' = Append(call_log,
           [LogEntry(message, GenerateMessageId, "ok", {}, {}) EXCEPT
               !.summary = SummariesAsked(message.content, summary)])
    /\ UNCHANGED pending_failed_tool_calls

\* add_message with a tool message when the last message is not an ai message
AddToolUnlinked(message) ==
    /\ message.type = "tool"
    /\ ~LastIsAi
    /\ StoreMessage(context_history, NewMessage(GenerateMessageId, message))
    /\ call_log' = Append(call_log, LogEntry(message, GenerateMessageId, "ok", {}, {}))
    /\ UNCHANGED pending_failed_tool_calls

\* add_message with a tool message when the last message is an ai message without
\* metadata["tool_call"]: line 125 raises KeyError before anything is changed
AddToolKeyError(message) ==
    /\ message.type = "tool"
    /\ LastIsAi
    /\ Message(context_history, last_message_id).metadata.tool_call = {}
    /\ call_log' = Append(call_log, LogEntry(message, GenerateMessageId, "KeyError", {}, {}))
    /\ UNCHANGED <<context_history, pending_failed_tool_calls, uncompressed_tokens,
                   compressed_tokens, last_message_id>>

\* add_message with a tool message answering the last ai message's tool call
AddToolLinked(message, is_successful, goal_achieved) ==
    /\ message.type = "tool"
    /\ LastIsAi
    /\ Message(context_history, last_message_id).metadata.tool_call # {}
    /\ LET msg_id == GenerateMessageId
           asked == is_successful /\ Len(pending_failed_tool_calls) > 0
           marked == MarkSuccessful(context_history, last_message_id, is_successful)
       IN  /\ asked \/ ~goal_achieved
           /\ pending_failed_tool_calls' =
                  PendingAfterResponse(pending_failed_tool_calls, last_message_id, msg_id,
                                       is_successful, goal_achieved)
           /\ StoreMessage(
                  HistoryAfterResponse(marked, pending_failed_tool_calls,
                                       is_successful, goal_achieved),
                  [NewMessage(msg_id, message) EXCEPT
                      !.metadata.is_response_to = {last_message_id}])
           /\ call_log' = Append(call_log,
                  [LogEntry(message, msg_id, "ok", {is_successful},
                            IF asked THEN {goal_achieved} ELSE {}) EXCEPT
                      !.skipped = IF asked /\ goal_achieved
                                  THEN SkippedIds(marked, ToDeleteIds(pending_failed_tool_calls))
                                  ELSE 0])

\* add_message with a non-blank ai message when the summarising llm call of
\* _compress_content (line 79) raises: line 113 is reached before anything is changed
AddAiSummaryFails(message) ==
    /\ message.type = "ai"
    /\ compress_on_add
    /\ Strip(message.content) # << >>
    /\ call_log' = Append(call_log, LogEntry(message, GenerateMessageId, "LLMError", {}, {}))
    /\ UNCHANGED <<context_history, pending_failed_tool_calls, uncompressed_tokens,
                   compressed_tokens, last_message_id>>

\* add_message with a tool message answering the last ai message's tool call when the
\* llm call of _is_tool_execution_successful (line 85) raises at line 125
AddToolSuccessCheckFails(message) ==
    /\ message.type = "tool"
    /\ LastIsAi
    /\ Message(context_history, last_message_id).metadata.tool_call # {}
    /\ call_log' = Append(call_log, LogEntry(message, GenerateMessageId, "LLMError", {}, {}))
    /\ UNCHANGED <<context_history, pending_failed_tool_calls, uncompressed_tokens,
                   compressed_tokens, last_message_id>>

PendingBeforeGoalCheck_RecordsFirst(pending, ai_id, msg_id) == Append(pending, <<ai_id, msg_id>>)
\* lines 129-154: the ledger when _is_goal_achieved is called: the successful branch
\* has appended nothing to it yet
PendingBeforeGoalCheck(pending, ai_id, msg_id) == pending

\* add_message with a tool message judged successful while the ledger is not empty,
\* when the llm call of _is_goal_achieved (line 91) raises at line 154: line 126 has
\* already set tool_successful on the last ai message
AddToolGoalCheckFails(message) ==
    /\ message.type = "tool"
    /\ LastIsAi
    /\ Message(context_history, last_message_id).metadata.tool_call # {}
    /\ Len(pending_failed_tool_calls) > 0
    /\ context_history' = MarkSuccessful(context_history, last_message_id, TRUE)
    /\ pending_failed_tool_calls' =
           PendingBeforeGoalCheck(pending_failed_tool_calls, last_message_id, GenerateMessageId)
    /\ call_log' = Append(call_log,
           LogEntry(message, GenerateMessageId, "LLMError", {TRUE}, {}))
    /\ UNCHANGED <<uncompressed_tokens, compressed_tokens, last_message_id>>

\* an llm call of the store raised: Agent.invoke, the caller of add_message, catches
\* KeyboardInterrupt only (agent.py line 167), so the run ends with that exception
JudgmentFailed ==
    /\ call_log # << >>
    /\ call_log[Len(call_log)].outcome = "LLMError"

\* what every add_message call does besides handling its message, in a run of at
\* most max_calls calls
CalledWithin(max_calls) ==
    /\ ~JudgmentFailed
    /\ next_id < max_calls
    /\ repeat_id = NoId
    /\ next_id' = next_id + 1
    /\ repeat_id' = NoId
    /\ full_context' = << >>
    /\ reads' = 0
    /\ UNCHANGED <<compress_on_add, parserVars>>

Called == CalledWithin(MaxMessages)

\* how many add_message calls a run of IdSpec makes, and how many of its uuid4 draws
\* repeat an earlier one
MaxIdCalls == 6
MaxRepeats == 1

\* the messages passed to add_message in IdSpec: every ai message carries a tool call
IdInputs ==
    {[type |-> "user", content |-> <<"u", " ", "u">>, tool_calls |-> << >>],
     [type |-> "tool", content |-> <<"o", "k">>, tool_calls |-> << >>],
     [type |-> "ai", content |-> <<"a", " ", "b", " ", "c">>, tool_calls |-> <<ReadFileCall>>]}

\* what every add_message call does besides handling its message, when the 8 hex
\* digits kept of a uuid4 may repeat
CalledRepeating ==
    /\ ~JudgmentFailed
    /\ Len(call_log) < MaxIdCalls
    /\ next_id' = IF repeat_id = NoId THEN next_id + 1 ELSE next_id
    /\ repeat_id' \in {NoId} \cup (IF Len(call_log) + 1 - next_id' < MaxRepeats
                                   THEN 1..next_id' ELSE {})
    /\ full_context' = << >>
    /\ reads' = 0
    /\ UNCHANGED <<compress_on_add, parserVars>>

\* role = msg['type'].capitalize(), "Ai" renamed "Assistant", "Tool" renamed
\* "Tool Response"
Role(type) ==
    CASE type = "system" -> <<"S", "y", "s", "t", "e", "m">>
      [] type = "user" -> <<"U", "s", "e", "r">>
      [] type = "ai" -> <<"A", "s", "s", "i", "s", "t", "a", "n", "t">>
      [] type = "tool" -> <<"T", "o", "o", "l", " ", "R", "e", "s", "p", "o", "n", "s", "e">>

\* sep.join(parts)
RECURSIVE Join(_, _)
Join(parts, sep) ==
    IF parts = << >> THEN << >>
    ELSE IF Len(parts) = 1 THEN parts[1]
    ELSE parts[1] \o sep \o Join(Tail(parts), sep)

\* line 182: f"<{k}>{v}</{k}>"
ArgString(arg) == <<"<">> \o arg.k \o <<">">> \o arg.v \o <<"<", "/">> \o arg.k \o <<">">>

\* _tool_string
ToolString(tool_call) ==
    <<"<">> \o tool_call.tool_name \o <<">", "\n">>
    \o Join([i \in 1..Len(tool_call.args) |-> ArgString(tool_call.args[i])], <<"\n">>)
    \o <<"\n", "<", "/">> \o tool_call.tool_name \o <<">">>

\* a rendering that would show the original content of every message
RECURSIVE ContextParts_OriginalContent(_)
ContextParts_OriginalContent(history) ==
    IF history = << >> THEN << >>
    ELSE LET msg == Head(history)
             call == msg.metadata.tool_call
         IN  <<Role(msg.type) \o <<":", "\n">> \o msg.original_content>>
             \o (IF msg.type = "ai" /\ call # {}
                 THEN <<ToolString(CHOOSE c \in call : TRUE)>>
                 ELSE << >>)
             \o ContextParts_OriginalContent(Tail(history))

\* lines 186-200: the list full_context built from the history
RECURSIVE ContextParts(_)
ContextParts(history) ==
    IF history = << >> THEN << >>
    ELSE LET msg == Head(history)
             call == msg.metadata.tool_call
         IN  <<Role(msg.type) \o <<":", "\n">> \o msg.compressed_content>>
             \o (IF msg.type = "ai" /\ call # {}
                 THEN <<ToolString(CHOOSE c \in call : TRUE)>>
                 ELSE << >>)
             \o ContextParts(Tail(history))

\* how many get_context calls are followed between two add_message calls
MaxReads == 2

\* a get_context that would empty the history it has rendered, as __del__ does
GetContextCall_ClearsHistory ==
    /\ reads < MaxReads
    /\ reads' = reads + 1
    /\ full_context' = Join(ContextParts(context_history), <<"\n", "\n">>)
    /\ context_history' = << >>
    /\ pending_failed_tool_calls' = << >>
    /\ UNCHANGED <<compress_on_add, uncompressed_tokens, compressed_tokens,
                   last_message_id, next_id, repeat_id, call_log>>

\* get_context
GetContextCall ==
    /\ reads < MaxReads
    /\ reads' = reads + 1
    /\ full_context' = Join(ContextParts(context_history), <<"\n", "\n">>)
    /\ UNCHANGED addVars

StoreInit ==
    /\ compress_on_add \in BOOLEAN
    /\ context_history = << >>
    /\ pending_failed_tool_calls = << >>
    /\ uncompressed_tokens = 0
    /\ compressed_tokens = 0
    /\ last_message_id = NoId
    /\ next_id = 0
    /\ repeat_id = NoId
    /\ call_log = << >>
    /\ full_context = << >>
    /\ reads = 0

(***************************************************************************)
(* tools/file.py                                                           *)
(***************************************************************************)
SearchMarker == <<"<", "<", "<", "<", "<", "<", "<", " ", "S", "E", "A", "R", "C", "H">>
SeparatorMarker == <<"=", "=", "=", "=", "=", "=", "=">>
ReplaceMarker == <<">", ">", ">", ">", ">", ">", ">", " ", "R", "E", "P", "L", "A", "C", "E">>

\* offsets are Python's: the character at offset i of s is s[i + 1]
StartsAt(s, i, t) == i + Len(t) <= Len(s) /\ SubSeq(s, i + 1, i + Len(t)) = t

\* the end of the run of white space that starts at offset i (what a greedy \s* takes)
RECURSIVE SkipSpaces(_, _)
SkipSpaces(s, i) == IF i < Len(s) /\ IsSpace(s[i + 1]) THEN SkipSpaces(s, i + 1) ELSE i

\* where ^ matches under re.MULTILINE
AtLineStart(s, i) == i = 0 \/ s[i] = "\n"

\* the end of a match of \s*\n at offset i: the run of white space up to its last line
\* break; -1 when the run holds no line break
SpacesToNewline(s, i) ==
    LET breaks == {j \in i..(SkipSpaces(s, i) - 1) : s[j + 1] = "\n"}
    IN  IF breaks = {} THEN -1 ELSE (CHOOSE j \in breaks : \A k \in breaks : k <= j) + 1

\* s.rstrip()
RStrip(s) ==
    LET solid == {i \in 1..Len(s) : ~IsSpace(s[i])}
    IN  IF solid = {} THEN << >>
        ELSE SubSeq(s, 1, CHOOSE i \in solid : \A j \in solid : j <= i)

\* line 150: diff_str.replace('\r\n', '\n').replace('\r', '\n'): every \r\n and every
\* other \r becomes one \n
NormalizeNewlines(s) ==
    LET Kept(c) == c # "dropped"
    IN  SelectSeq([i \in 1..Len(s) |->
                      IF s[i] = "\n" /\ i > 1 /\ s[i - 1] = "\r" THEN "dropped"
                      ELSE IF s[i] = "\r" THEN "\n" ELSE s[i]],
                  Kept)

\* a match of ^\s*<<<<<<< SEARCH (re.MULTILINE) starts at offset i
DelimiterAt(s, i) == AtLineStart(s, i) /\ StartsAt(s, SkipSpaces(s, i), SearchMarker)

\* the first such match at or after offset i; -1 when there is none
NextDelimiter(s, i) ==
    LET matches == {j \in i..Len(s) : DelimiterAt(s, j)}
    IN  IF matches = {} THEN -1 ELSE SetMin(matches)

\* lines 154-166: chunks[i] + chunks[i + 1] for every delimiter of the split, from the
\* delimiter found at offset i on
RECURSIVE BlockContents(_, _)
BlockContents(s, i) ==
    IF i = -1 THEN << >>
    ELSE LET after == SkipSpaces(s, i) + Len(SearchMarker)
             following == NextDelimiter(s, after)
         IN  <<PySlice(s, i, IF following = -1 THEN Len(s) ELSE following)>>
             \o BlockContents(s, following)

\* a match of \n^\s*=======\s*\n starts at offset i
SeparatorAt(s, i) ==
    /\ i < Len(s)
    /\ s[i + 1] = "\n"
    /\ StartsAt(s, SkipSpaces(s, i + 1), SeparatorMarker)
    /\ SpacesToNewline(s, SkipSpaces(s, i + 1) + Len(SeparatorMarker)) # -1

\* line 182: the header '<<<<<<< SEARCH' and the line break after it removed
SearchContent(header_and_search) ==
    LET after == SkipSpaces(header_and_search, 0) + Len(SearchMarker)
        end == SpacesToNewline(header_and_search, after)
    IN  IF end = -1 THEN header_and_search
        ELSE PySlice(header_and_search, end, Len(header_and_search))

\* line 187: the trailer '>>>>>>> REPLACE' removed when a line break precedes it and
\* only white space follows it, then rstrip()
ReplaceContent(replace_and_trailer) ==
    LET trailers == {i \in 0..(Len(replace_and_trailer) - 1) :
                        /\ replace_and_trailer[i + 1] = "\n"
                        /\ StartsAt(replace_and_trailer,
                                    SkipSpaces(replace_and_trailer, i + 1), ReplaceMarker)
                        /\ SkipSpaces(replace_and_trailer,
                                      SkipSpaces(replace_and_trailer, i + 1)
                                      + Len(ReplaceMarker)) = Len(replace_and_trailer)}
    IN  IF trailers = {} THEN RStrip(replace_and_trailer)
        ELSE RStrip(PySlice(replace_and_trailer, 0, SetMin(trailers)))

\* lines 168-189: the (search, replace) pair of one block; none without a separator
BlockChanges(block_content) ==
    LET separators == {i \in 0..Len(block_content) : SeparatorAt(block_content, i)}
    IN  IF separators = {} THEN << >>
        ELSE LET at == SetMin(separators)
                 end == SpacesToNewline(block_content,
                            SkipSpaces(block_content, at + 1) + Len(SeparatorMarker))
             IN  <<[search |-> SearchContent(PySlice(block_content, 0, at)),
                    replace |-> ReplaceContent(
                                    PySlice(block_content, end, Len(block_content)))]>>

RECURSIVE ChangesOf(_)
ChangesOf(blocks) ==
    IF blocks = << >> THEN << >> ELSE BlockChanges(Head(blocks)) \o ChangesOf(Tail(blocks))

\* _parse_diff_blocks
ParseDiffBlocks(diff_str) ==
    LET processed_diff_str == NormalizeNewlines(diff_str)
    IN  ChangesOf(BlockContents(processed_diff_str, NextDelimiter(processed_diff_str, 0)))

\* s.split("\n")
RECURSIVE SplitLines(_)
SplitLines(s) ==
    LET breaks == {i \in 1..Len(s) : s[i] = "\n"}
    IN  IF breaks = {} THEN <<s>>
        ELSE <<SubSeq(s, 1, SetMin(breaks) - 1)>>
             \o SplitLines(SubSeq(s, SetMin(breaks) + 1, Len(s)))

\* the lines of the search content without the empty line a final line break leaves
SearchLines(search_content) ==
    LET search_lines == SplitLines(search_content)
    IN  IF search_lines[Len(search_lines)] = << >>
        THEN SubSeq(search_lines, 1, Len(search_lines) - 1)
        ELSE search_lines

\* the offset at which line n (counted from 0) starts: every line before it and its \n
RECURSIVE LineOffset(_, _)
LineOffset(lines, n) ==
    IF n = 0 THEN 0 ELSE LineOffset(lines, n - 1) + Len(lines[n]) + 1

\* lines 213-218: the number of the first line that starts at or after start_index
StartLineNum(original_lines, start_index) ==
    SetMin({n \in 0..Len(original_lines) :
               n = Len(original_lines) \/ LineOffset(original_lines, n) >= start_index})

\* lines 232-248: the offsets of the lines i .. i + size - 1 (counted from 0)
MatchedRange(original_content, original_lines, i, size) ==
    <<LineOffset(original_lines, i),
      LineOffset(original_lines, i + size)
      - (IF i + size = Len(original_lines) /\ ~EndsWith(original_content, <<"\n">>)
         THEN 1 ELSE 0)>>

\* _line_trimmed_fallback_match; None is the empty sequence
LineTrimmedFallbackMatch(original_content, search_content, start_index) ==
    LET original_lines == SplitLines(original_content)
        search_lines == SearchLines(search_content)
        starts == {i \in StartLineNum(original_lines, start_index)
                           ..(Len(original_lines) - Len(search_lines)) :
                      \A j \in 1..Len(search_lines) :
                          Strip(original_lines[i + j]) = Strip(search_lines[j])}
    IN  IF search_lines = << >> \/ starts = {} THEN << >>
        ELSE MatchedRange(original_content, original_lines, SetMin(starts),
                          Len(search_lines))

\* _block_anchor_fallback_match
BlockAnchorFallbackMatch(original_content, search_content, start_index) ==
    LET original_lines == SplitLines(original_content)
        search_lines == SearchLines(search_content)
        search_block_size == Len(search_lines)
        starts == {i \in StartLineNum(original_lines, start_index)
                           ..(Len(original_lines) - search_block_size) :
                      /\ Strip(original_lines[i + 1]) = Strip(search_lines[1])
                      /\ Strip(original_lines[i + search_block_size])
                            = Strip(search_lines[search_block_size])}
    IN  IF Len(SplitLines(search_content)) < 3 \/ search_lines = << >> \/ starts = {}
        THEN << >>
        ELSE MatchedRange(original_content, original_lines, SetMin(starts),
                          search_block_size)

\* s.find(t, start)
Find(s, t, start) ==
    LET found == {i \in start..(Len(s) - Len(t)) : StartsAt(s, i, t)}
    IN  IF found = {} THEN -1 ELSE SetMin(found)

\* lines 352-369: where a SEARCH block matches: exactly, else line-trimmed, else by
\* its first and last lines; << >> when none of the three finds it
MatchOf(modified_content, search_code, last_processed_index) ==
    LET exact_index == Find(modified_content, search_code, last_processed_index)
        line_match == LineTrimmedFallbackMatch(modified_content, search_code,
                                               last_processed_index)
    IN  IF exact_index # -1 THEN <<exact_index, exact_index + Len(search_code)>>
        ELSE IF line_match # << >> THEN line_match
        ELSE BlockAnchorFallbackMatch(modified_content, search_code, last_processed_index)

\* lines 345-348: the variables of the loop before its first iteration; replacements
\* is the record of the replacements made, block is the number of blocks handled
LoopStart(original_content) ==
    [modified_content |-> original_content,
     applied_count |-> 0,
     last_processed_index |-> 0,
     block |-> 0,
     replacements |-> << >>]

\* lines 371-381: the match is replaced by update_code
Spliced(st, update_code, match) ==
    [modified_content |->
         PySlice(st.modified_content, 0, match[1]) \o update_code
         \o PySlice(st.modified_content, match[2], Len(st.modified_content)),
     applied_count |-> st.applied_count + 1,
     last_processed_index |-> match[1] + Len(update_code),
     block |-> st.block + 1,
     replacements |-> Append(st.replacements,
                             [block |-> st.block + 1, start |-> match[1],
                              end |-> match[2], text |-> update_code])]

ApplyChange_SearchesFromStart(st, change) ==
    LET match == MatchOf(st.modified_content, change.search, 0)
    IN  IF match # << >> THEN Spliced(st, change.replace, match)
        ELSE [st EXCEPT !.block = st.block + 1]
\* lines 351-385: one iteration of the loop over changes_list
ApplyChange(st, change) ==
    LET match == MatchOf(st.modified_content, change.search, st.last_processed_index)
    IN  IF match # << >> THEN Spliced(st, change.replace, match)
        ELSE [st EXCEPT !.block = st.block + 1]

\* lines 351-385: the loop over changes_list, from the state st of its variables
RECURSIVE ApplyChanges(_, _)
ApplyChanges(st, changes_list) ==
    IF changes_list = << >> THEN st
    ELSE ApplyChanges(ApplyChange(st, Head(changes_list)), Tail(changes_list))

(***************************************************************************)
(* tools/terminal_session.py: TerminalSession.send_command_and_capture     *)
(***************************************************************************)
VARIABLES
    capture_pc,         \* where send_command_and_capture stands: "idle", "polling",
                        \* "returned" or "raised"
    sent_command,       \* the command it was given
    waited,
    found_end,
    captured_output,    \* output
    last_pane_dump,
    polls               \* number of tmux capture-pane calls made (line 99)

captureVars == <<capture_pc, sent_command, waited, found_end, captured_output,
                 last_pane_dump, polls>>

\* lines 89 and 91
max_wait == 600
poll_interval == 2

\* lines 77-78: the two markers, and the text "echo <marker>" typed into the pane
StartMarker == <<"S">>
EndMarker == <<"E">>
Echo(marker) == <<"e", " ">> \o marker

\* s.rfind(t)
RFind(s, t) ==
    LET found == {i \in 0..(Len(s) - Len(t)) : StartsAt(s, i, t)}
    IN  IF found = {} THEN -1 ELSE CHOOSE i \in found : \A j \in found : j <= i

\* s.replace(t, "")
RECURSIVE Removed(_, _)
Removed(s, t) ==
    IF Find(s, t, 0) = -1 THEN s
    ELSE SubSeq(s, 1, Find(s, t, 0))
         \o Removed(SubSeq(s, Find(s, t, 0) + Len(t) + 1, Len(s)), t)

\* line 106: the pane without the typed "echo <end marker>"
Cleaned(pane_text) == Removed(pane_text, Echo(EndMarker))

\* line 108
BothMarkersIn(pane_text) ==
    /\ Find(Cleaned(pane_text), StartMarker, 0) # -1
    /\ Find(Cleaned(pane_text), EndMarker, 0) # -1

\* lines 109-111
Captured(pane_text) ==
    Strip(PySlice(Cleaned(pane_text),
                  RFind(Cleaned(pane_text), StartMarker) + Len(StartMarker),
                  RFind(Cleaned(pane_text), EndMarker)))

\* line 130
CaptureTimeoutText == <<"E", "R", "R", "O", "R", ":", " ", "T", "i", "m", "e", "o", "u", "t">>

\* what tmux capture-pane can print while the three lines typed by lines 81-83 run:
\* nothing yet, the start marker echoed, the command running, the end marker typed
\* ahead, everything done (with and without output, with the typed end marker before
\* the output), the start marker scrolled away
PaneTexts ==
    LET nl == <<"\n">>
        begun == Echo(StartMarker) \o nl \o StartMarker \o nl
        typed == <<"c">> \o nl
        printed == <<"o", " ", "k">> \o nl
        ended == Echo(EndMarker) \o nl \o EndMarker \o nl
    IN  {<< >>,
         begun,
         begun \o typed \o printed,
         begun \o typed \o Echo(EndMarker) \o nl,
         begun \o typed \o printed \o ended,
         begun \o typed \o ended,
         begun \o typed \o Echo(EndMarker) \o nl \o printed \o EndMarker \o nl,
         printed \o ended}

\* the commands given: one without quote, one with an apostrophe
Commands == {<<"l", "s">>, <<"i", "t", "'", "s">>}

\* line 82 puts the command between single quotes in a shell command line: sh reports
\* an unterminated quoted string when the command holds an odd number of them
Unterminated(cmd) == Cardinality({i \in 1..Len(cmd) : cmd[i] = "'"}) % 2 = 1

\* lines 77-95: the three send-keys calls (check=True) and the loop's variables; a
\* send-keys that exits non-zero (the pane is gone, sh cannot parse the line) raises
\* CalledProcessError out of the method
SendKeys ==
    \E cmd \in Commands, pane_alive \in BOOLEAN :
       /\ capture_pc = "idle"
       /\ sent_command' = cmd
       /\ capture_pc' = IF pane_alive /\ ~Unterminated(cmd) THEN "polling" ELSE "raised"
       /\ waited' = 0
       /\ found_end' = FALSE
       /\ captured_output' = << >>
       /\ last_pane_dump' = << >>
       /\ polls' = 0

\* lines 98-115: one turn of the polling loop
Poll ==
    \E pane_text \in PaneTexts :
       /\ capture_pc = "polling"
       /\ waited < max_wait
       /\ polls' = polls + 1
       /\ last_pane_dump' = pane_text
       /\ IF BothMarkersIn(pane_text)
          THEN /\ captured_output' = Captured(pane_text)
               /\ found_end' = TRUE
               /\ capture_pc' = "returned"
               /\ UNCHANGED waited
          ELSE /\ waited' = waited + poll_interval
               /\ UNCHANGED <<captured_output, found_end, capture_pc>>
       /\ UNCHANGED sent_command

\* lines 116-130: the capture-pane call raises, or a KeyboardInterrupt arrives in the
\* loop; found_end is false and the time-out text is returned
PollRaises ==
    /\ capture_pc = "polling"
    /\ waited < max_wait
    /\ polls' = polls + 1
    /\ captured_output' = CaptureTimeoutText
    /\ capture_pc' = "returned"
    /\ UNCHANGED <<sent_command, waited, found_end, last_pane_dump>>

\* lines 98 and 123-132: the loop ends without the markers
TimedOut ==
    /\ capture_pc = "polling"
    /\ waited >= max_wait
    /\ captured_output' = CaptureTimeoutText
    /\ capture_pc' = "returned"
    /\ UNCHANGED <<sent_command, waited, found_end, last_pane_dump, polls>>

\* no send_command_and_capture call has been made
CaptureIdle ==
    /\ capture_pc = "idle"
    /\ sent_command = << >>
    /\ waited = 0
    /\ found_end = FALSE
    /\ captured_output = << >>
    /\ last_pane_dump = << >>
    /\ polls = 0

VARIABLES
    files,              \* the file system: what each path of Paths names
    tool_result,        \* how the last operation ended: the string it returned, or the
                        \* exception it raised
    file_opens,         \* the open() calls the last operation made, in order
    last_tool_call,     \* the call of a tool's __call__ the last operation made, as the
                        \* set holding the tool's name and its arguments; empty when it
                        \* made none
    invoked,            \* the tool call invoke_tool was last given, as the set holding
                        \* it; empty when the tool was called without invoke_tool
    replacements        \* the replacements the last operation made in a file's content:
                        \* the block of the diff, where it matched, the text put there

toolVars == <<files, tool_result, file_opens, last_tool_call, invoked, replacements,
              captureVars>>

\* a Python value as an argument: its type and its str()
PyStr(s) == [type |-> "str", str |-> s]
PyNone == [type |-> "NoneType", str |-> <<"N", "o", "n", "e">>]
PyInt1234 == [type |-> "int", str |-> <<"1", "2", "3", "4">>]

\* what a path can name
NoFile == [kind |-> "missing", text |-> << >>, readable |-> FALSE, writable |-> FALSE]
Directory == [kind |-> "dir", text |-> << >>, readable |-> TRUE, writable |-> TRUE]
RegularFile(text, readable, writable) ==
    [kind |-> "file", text |-> text, readable |-> readable, writable |-> writable]

\* the paths of the model's working directory
Paths == {<<"f">>, <<"g">>}

\* os.path.exists / os.path.isfile
PathExists(fs, path_str) == path_str \in Paths /\ fs[path_str].kind # "missing"
IsFile(fs, path_str) == path_str \in Paths /\ fs[path_str].kind = "file"

\* how a call ends
Returned(text) == [kind |-> "returned", v |-> text]
Raised(error) == [kind |-> "raised", v |-> <<error>>]
NotCalled == [kind |-> "none", v |-> << >>]

Opened(path_str, mode) == [path |-> path_str, mode |-> mode]

\* what a tool's __call__ does: the file system it leaves, how it ends, the files it opened
Effect(fs, ended, opens) ==
    [fs |-> fs, result |-> ended, opens |-> opens, replaced |-> << >>]

\* the results of the file tools; of the longer messages, their first words
\* line 312, up to the path
PathInvalidText ==
    <<"E", "R", "R", "O", "R", ":", " ", "P", "a", "t", "h", " ", "p", "a", "r", "a",
      "m", "e", "t", "e", "r", " ", "i", "s", " ", "m", "i", "s", "s", "i", "n", "g",
      " ", "o", "r", " ", "i", "n", "v", "a", "l", "i", "d", ".", " ", "P", "a", "t",
      "h", " ", "p", "r", "o", "v", "i", "d", "e", "d", ":", " ", "'">>

\* line 314, up to the path
DiffNotStringText ==
    <<"E", "R", "R", "O", "R", ":", " ", "D", "i", "f", "f", " ", "p", "a", "r", "a",
      "m", "e", "t", "e", "r", " ", "m", "u", "s", "t", " ", "b", "e", " ", "a", " ",
      "s", "t", "r", "i", "n", "g", ".", " ", "P", "a", "t", "h", ":", " ", "'">>

\* line 318
FileNotFoundText ==
    <<"E", "R", "R", "O", "R", ":", " ", "F", "i", "l", "e", " ", "n", "o", "t", " ",
      "f", "o", "u", "n", "d", " ", "a", "t", " ", "p", "a", "t", "h", ":", " ">>

\* line 320
NotAFileText ==
    <<"E", "R", "R", "O", "R", ":", " ", "P", "a", "t", "h", " ", "i", "s", " ", "n",
      "o", "t", " ", "a", " ", "f", "i", "l", "e", ":", " ">>

\* line 327
ReadErrorText ==
    <<"E", "R", "R", "O", "R", ":", " ", "E", "r", "r", "o", "r", " ", "r", "e", "a",
      "d", "i", "n", "g", " ", "f", "i", "l", "e", " ">>

\* line 341
NoBlocksText ==
    <<"E", "R", "R", "O", "R", ":", " ", "N", "o", " ", "v", "a", "l", "i", "d", " ",
      "S", "E", "A", "R", "C", "H", "/", "R", "E", "P", "L", "A", "C", "E", " ", "b",
      "l", "o", "c", "k", "s", " ", "f", "o", "u", "n", "d", " ", "i", "n", " ", "t",
      "h", "e", " ", "p", "r", "o", "v", "i", "d", "e", "d", " ", "d", "i", "f", "f",
      " ", "f", "o", "r", " ", "f", "i", "l", "e", " ">>

\* line 394
WriteErrorText ==
    <<"E", "R", "R", "O", "R", ":", " ", "E", "r", "r", "o", "r", " ", "w", "r", "i",
      "t", "i", "n", "g", " ", "u", "p", "d", "a", "t", "e", "d", " ", "c", "o", "n",
      "t", "e", "n", "t", " ", "t", "o", " ", "f", "i", "l", "e", " ">>

\* line 396
NoChangeText ==
    <<"N", "O", "_", "C", "H", "A", "N", "G", "E", "_", "A", "P", "P", "L", "I", "E",
      "D", ":", " ", "A", "l", "t", "h", "o", "u", "g", "h", " ">>

\* line 53
FileCreatedText ==
    <<"N", "e", "w", " ", "f", "i", "l", "e", " ", "c", "r", "e", "a", "t", "e", "d",
      ":", " ">>

\* line 80
FileMissingText ==
    <<"F", "i", "l", "e", " ", "a", "t", " ", "p", "a", "t", "h", " ">>

\* line 82
FileContentText ==
    <<"C", "o", "n", "t", "e", "n", "t", " ", "o", "f", " ", "f", "i", "l", "e", " ">>

\* WriteToFileTool.__call__
WriteToFileTool(fs, path_arg, content_arg) ==
    IF ~(path_arg \in Paths) \/ fs[path_arg].kind = "dir"
       \/ (fs[path_arg].kind = "file" /\ ~fs[path_arg].writable)
    THEN Effect(fs, Raised("OSError"), <<Opened(path_arg, "w")>>)
    ELSE Effect([fs EXCEPT ![path_arg] = RegularFile(content_arg, TRUE, TRUE)],
                Returned(FileCreatedText \o path_arg
                         \o <<" ", "a", "n", "d", " ", "w", "r", "i", "t", "t", "e", "n",
                              " ", "s", "u", "c", "c", "e", "s", "s", "f", "u", "l", "l",
                              "y", ".">>),
                <<Opened(path_arg, "w")>>)

\* ReadFileTool.__call__
ReadFileTool(fs, path_arg) ==
    IF ~PathExists(fs, path_arg)
    THEN Effect(fs, Returned(FileMissingText \o path_arg
                             \o <<" ", "d", "o", "e", "s", " ", "n", "o", "t", " ", "e",
                                  "x", "i", "s", "t">>),
                << >>)
    ELSE IF fs[path_arg].kind = "dir" \/ ~fs[path_arg].readable
    THEN Effect(fs, Raised("OSError"), <<Opened(path_arg, "r")>>)
    ELSE Effect(fs, Returned(FileContentText \o path_arg \o <<":", "\n">>
                             \o fs[path_arg].text),
                <<Opened(path_arg, "r")>>)

WritesFile_EvenUnchanged(applied_count) == TRUE
\* line 388: the file is written when at least one change was applied
WritesFile(applied_count) == applied_count > 0

\* ReplaceInFileTool.__call__ lines 329-400, on the content read from the file
ReplaceInContent(fs, path_str, diff_str, original_content) ==
    LET changes_list == ParseDiffBlocks(diff_str)
        applied == ApplyChanges(LoopStart(original_content), changes_list)
    IN  IF Strip(diff_str) = << >>
        THEN Effect(fs, Returned(original_content), <<Opened(path_str, "r")>>)
        ELSE IF changes_list = << >>
        THEN Effect(fs, Returned(NoBlocksText \o path_str), <<Opened(path_str, "r")>>)
        ELSE IF ~WritesFile(applied.applied_count)
        THEN Effect(fs, Returned(NoChangeText), <<Opened(path_str, "r")>>)
        ELSE IF ~fs[path_str].writable
        THEN [Effect(fs, Returned(WriteErrorText \o path_str),
                     <<Opened(path_str, "r"), Opened(path_str, "w")>>)
              EXCEPT !.replaced = applied.replacements]
        ELSE [Effect([fs EXCEPT ![path_str].text = applied.modified_content],
                     Returned(applied.modified_content),
                     <<Opened(path_str, "r"), Opened(path_str, "w")>>)
              EXCEPT !.replaced = applied.replacements]

\* ReplaceInFileTool.__call__
ReplaceInFileTool(fs, path_arg, diff_arg) ==
    IF path_arg.type # "str" \/ path_arg.str = << >>
    THEN Effect(fs, Returned(PathInvalidText \o path_arg.str \o <<"'", ".">>), << >>)
    ELSE IF diff_arg.type # "str"
    THEN Effect(fs, Returned(DiffNotStringText \o path_arg.str \o <<"'", ".">>), << >>)
    ELSE IF ~PathExists(fs, path_arg.str)
    THEN Effect(fs, Returned(FileNotFoundText \o path_arg.str), << >>)
    ELSE IF ~IsFile(fs, path_arg.str)
    THEN Effect(fs, Returned(NotAFileText \o path_arg.str), << >>)
    ELSE IF ~fs[path_arg.str].readable
    THEN Effect(fs, Returned(ReadErrorText \o path_arg.str),
                <<Opened(path_arg.str, "r")>>)
    ELSE ReplaceInContent(fs, path_arg.str, diff_arg.str, fs[path_arg.str].text)

\* a call of a tool ends: its effect becomes the state
ToolCalled(name, args, effect) ==
    /\ files' = effect.fs
    /\ tool_result' = effect.result
    /\ file_opens' = effect.opens
    /\ replacements' = effect.replaced
    /\ last_tool_call' = {[tool |-> name, args |-> args]}
    /\ UNCHANGED captureVars

\* before any call of a tool
ToolsIdle ==
    /\ tool_result = NotCalled
    /\ file_opens = << >>
    /\ last_tool_call = {}
    /\ invoked = {}
    /\ replacements = << >>
    /\ CaptureIdle

\* a diff of one SEARCH/REPLACE block
DiffOf(search_text, replace_text) ==
    SearchMarker \o <<"\n">> \o search_text \o <<"\n">> \o SeparatorMarker \o <<"\n">>
    \o replace_text \o <<"\n">> \o ReplaceMarker

\* the diffs given to the tool: empty, blank, without markers, a block without its
\* separator, blocks that match exactly, by trimmed lines, by first and last line, not
\* at all, two blocks of which the second matches nothing, of which the first matches
\* nothing, and which both match
Diffs ==
    {<< >>,
     <<" ", "\n">>,
     <<"n", "o">>,
     SearchMarker \o <<"\n", "a", "\n">> \o ReplaceMarker,
     DiffOf(<<"a">>, <<"x">>),
     DiffOf(<<" ", "b", " ">>, <<"y">>),
     DiffOf(<<"a", "\n", "q", "\n", "c">>, <<"w">>),
     DiffOf(<<"z">>, <<"x">>),
     DiffOf(<<"a">>, <<"a">>),
     DiffOf(<<"b">>, <<"y">>) \o <<"\n">> \o DiffOf(<<"a">>, <<"x">>),
     DiffOf(<<"z">>, <<"x">>) \o <<"\n">> \o DiffOf(<<"c">>, <<"a">>),
     DiffOf(<<"a">>, <<"x">>) \o <<"\n">> \o DiffOf(<<"c">>, <<"a">>)}

\* the arguments the tool is called with
PathArgs == {PyNone, PyStr(<< >>)} \cup {PyStr(path_str) : path_str \in Paths}
DiffArgs == {PyInt1234} \cup {PyStr(diff_str) : diff_str \in Diffs}

\* what write_to_file is asked to write, and where
WrittenContents == {<<"a", "\n", "b", "\n", "c">>, <<"c", "\n">>}
WrittenPaths == {<<"f">>}

\* what the paths name before the first call: f any of these, g no regular file
InitialEntries ==
    {NoFile, Directory,
     RegularFile(<<"a", "\n", "b", "\n", "c">>, TRUE, TRUE),
     RegularFile(<<"a", "\n", "b", "\n", "c">>, FALSE, TRUE),
     RegularFile(<<"a", "\n", " ", "b", "\n", "c", "\n">>, TRUE, FALSE)}
FileSystems ==
    {fs \in [Paths -> InitialEntries] : fs[<<"g">>].kind # "file"}
EmptyDirectory == [path_str \in Paths |-> NoFile]

(***************************************************************************)
(* agent.py, main.py, tools/shell.py, tools/terminal_session.py            *)
(***************************************************************************)
VARIABLES
    task,               \* the query main.py passes to Agent.invoke
    agent_pc,           \* where Agent.invoke stands: "idle", "prompted", "model",
                        \* "dispatch", "running", "polling", "store_result", "exited",
                        \* "finished"
    exit_cause,         \* how invoke ended: "none", "blank", "completed", "interrupt" or
                        \* the exception that left it
    turn_blocks,        \* content_blocks of the current iteration
    block_index,        \* position of the for loop of line 112 in turn_blocks
    tool_calls,
    text_content,
    tool_response,
    is_task_completed,
    running_tool,       \* the content block whose tool is executing; None otherwise
    terminal_session,   \* self.terminal_session is not None
    sessions,           \* for each TerminalSession created, in order of creation, how
                        \* many times its cleanup ran; the one held is the last
    cleanups,           \* number of Agent.cleanup calls
    status_printed,     \* print_status was called by the interrupt handler
    llm_requests,       \* number of self.llm.invoke calls of line 94
    interrupts,         \* number of KeyboardInterrupts delivered
    ip,                 \* what the user typed at the approval prompt of ShellTool, as the
                        \* set holding it; empty before the first prompt
    events              \* the steps of the current iteration, in the order they happened

agentVars == <<task, agent_pc, exit_cause, turn_blocks, block_index, tool_calls,
               text_content, tool_response, is_task_completed, running_tool,
               terminal_session, sessions, cleanups, status_printed, llm_requests, interrupts, ip,
               events, toolVars>>

\* the variables of Agent.invoke and main.py
runVars == <<task, agent_pc, exit_cause, turn_blocks, block_index, tool_calls,
             text_content, tool_response, is_task_completed, running_tool,
             terminal_session, sessions, cleanups, status_printed, llm_requests, interrupts, ip,
             events>>

loopVars == <<turn_blocks, block_index, tool_calls, text_content, tool_response,
              is_task_completed, running_tool, events>>

\* the queries given to invoke: a blank one and a task
Tasks == {<<" ">>, <<"d", "o">>}

\* the system prompt built by PromptManager.get_prompt
SystemPrompt == <<"s">>

ReplaceCall ==
    [tool_name |-> replace_in_file,
     args |-> <<[k |-> path, v |-> <<"f">>], [k |-> diff, v |-> <<"d">>]>>]
ShellCall ==
    [tool_name |-> shell,
     args |-> <<[k |-> command, v |-> <<"c">>],
                [k |-> requires_approval, v |-> <<"T", "r", "u", "e">>]>>]
CompletionCall ==
    [tool_name |-> attempt_completion, args |-> <<[k |-> result, v |-> <<"r">>]>>]

\* response.content of the model's turns: text only, one call whose output may be
\* empty, text and two calls, a call without its required parameter, a completion,
\* a completion between two other calls, a shell call without requires_approval
AgentResponses ==
    {<<"h", "i">>,
     CallText(ReplaceCall),
     <<"x">> \o CallText(ReadFileCall) \o CallText(ShellCall),
     CallText([tool_name |-> read_file, args |-> << >>]),
     CallText(CompletionCall),
     CallText(ReadFileCall) \o CallText(CompletionCall) \o CallText(ShellCall),
     CallText([tool_name |-> shell, args |-> <<[k |-> command, v |-> <<"c">>]>>])}

\* what the user types at the approval prompt "Approval required (y/n) ..."
ApprovalAnswers == {<<"y">>, <<"N">>, <<"n", "o">>, << >>}

\* what the user types at input("User: ")
UserInputs == {<<"n", "o", " ">>}

ToolOf(name) == TOOLS_DICT[CHOOSE i \in 1..Len(TOOLS_DICT) : TOOLS_DICT[i].name = name]

\* str.lower() on the letters the model uses
LowerChar(c) ==
    CASE c = "T" -> "t" [] c = "N" -> "n" [] c = "Y" -> "y" [] OTHER -> c
Lower(s) == [i \in 1..Len(s) |-> LowerChar(s[i])]

\* self.tool_instances has the names of TOOLS_DICT
Registered(name) == \E i \in 1..Len(TOOLS_DICT) : TOOLS_DICT[i].name = name

\* invoke_tool lines 60-72, up to the call of a registered tool: "TypeError",
\* "missing" or "call"
RegisteredToolEntry(block) ==
    IF block.tool = shell
    THEN \* tool_executable(**params, terminal_session=...): both positional
         \* parameters of ShellTool.__call__ must be among the keyword arguments
         IF DictHas(block.params, command) /\ DictHas(block.params, requires_approval)
         THEN "call" ELSE "TypeError"
    ELSE IF ToolOf(block.tool).params.kind # "dict"
    THEN "TypeError"
    ELSE IF \A i \in 1..Len(ToolOf(block.tool).params.required) :
                DictHas(block.params, ToolOf(block.tool).params.required[i])
    THEN "call" ELSE "missing"

InvokeToolEntry_ValidatesUnregistered(block) ==
    IF ~Registered(block.tool) THEN "missing" ELSE RegisteredToolEntry(block)
\* invoke_tool up to the call of the tool: "not found", "TypeError", "missing" or "call"
InvokeToolEntry(block) ==
    IF ~Registered(block.tool) THEN "not found" ELSE RegisteredToolEntry(block)

\* the strings the tools return, by tool
MissingParameterText == <<"M", "i", "s", "s", "i", "n", "g">>
NotFoundText(name) ==
    <<"T", "o", "o", "l", " ", "'">> \o name
    \o <<"'", " ", "n", "o", "t", " ", "f", "o", "u", "n", "d", ".">>
\* what invoke_tool returns when it does not call the tool
EarlyReturn(block, entry) ==
    IF entry = "not found" THEN NotFoundText(block.tool) ELSE MissingParameterText
DeniedText == <<"U", "s", "e", "r", " ", "d", "e", "n", "i", "e", "d">>
CommandOutputPrefix == <<"C", "o", "m", "m", "a", "n", "d", " ", "o", "u", "t", "p", "u", "t", ":", "\n">>
TimeoutText == <<"E", "R", "R", "O", "R", ":", " ", "T", "i", "m", "e", "o", "u", "t">>
CapturedOutputs == {<<"o", "k">>}

ToolReturns(name) ==
    IF name = replace_in_file THEN {<< >>, <<"m">>}     \* the file's new content
    ELSE IF name = read_file THEN {<<"C", ":", "\n", "r">>}
    ELSE {<<"o", "u", "t">>}

\* tools whose body can raise: ReadFileTool opens the path outside any try
ToolMayRaise(name) == name \in {read_file, write_to_file}

NextIndex_SkipsOne(index) == index + 2
\* the for loop of line 112 takes the blocks one after the other
NextIndex(index) == index + 1

Event(ev, index) == [ev |-> ev, block |-> index]

\* lines 62-64: the TerminalSession the shell tool is given, created when none is held
SessionsAfterDispatch(held, created, tool) ==
    IF tool = shell /\ ~held THEN Append(created, 0) ELSE created

\* line 64: TerminalSession(...) returns, or raises (tmux is missing, lines 17-18; a
\* tmux command fails, line 21; no pane id, line 29); it is called only for the shell
\* tool while no session is held
SessionOutcomes(held, tool) == IF tool = shell /\ ~held THEN BOOLEAN ELSE {TRUE}

\* lines 33-35: the held session's cleanup runs
Released(held, created) ==
    IF held THEN [created EXCEPT ![Len(created)] = @ + 1] ELSE created

\* a cleanup that would keep the reference to the session it has released
Cleanup_KeepsSession ==
    /\ UNCHANGED terminal_session
    /\ sessions' = Released(terminal_session, sessions)
    /\ cleanups' = cleanups + 1

\* Agent.cleanup
Cleanup ==
    /\ terminal_session' = FALSE
    /\ sessions' = Released(terminal_session, sessions)
    /\ cleanups' = cleanups + 1

\* an exception leaves invoke: TypeError, KeyError, LLMError, ToolError,
\* EnvironmentError, CalledProcessError, KeyboardInterrupt
Raise(cause) ==
    /\ agent_pc' = "exited"
    /\ exit_cause' = cause
    /\ UNCHANGED <<terminal_session, sessions, cleanups, status_printed>>

\* invoke with a blank query returns at once
InvokeBlank ==
    /\ agent_pc = "idle"
    /\ Strip(task) = << >>
    /\ agent_pc' = "exited"
    /\ exit_cause' = "blank"
    /\ UNCHANGED <<task, ip, toolVars, loopVars, terminal_session, sessions, cleanups, status_printed,
                   llm_requests, interrupts, storeVars, parserVars>>

\* lines 79-83: the system message
InvokeSystem ==
    /\ agent_pc = "idle"
    /\ Strip(task) # << >>
    /\ AddPlain([type |-> "system", content |-> SystemPrompt, tool_calls |-> << >>])
    /\ Called
    /\ agent_pc' = "prompted"
    /\ UNCHANGED <<task, ip, toolVars, exit_cause, loopVars, terminal_session, sessions, cleanups, status_printed,
                   llm_requests, interrupts>>

\* lines 84-87: the user message
InvokeUser ==
    /\ agent_pc = "prompted"
    /\ AddPlain([type |-> "user", content |-> task, tool_calls |-> << >>])
    /\ Called
    /\ agent_pc' = "model"
    /\ UNCHANGED <<task, ip, toolVars, exit_cause, loopVars, terminal_session, sessions, cleanups, status_printed,
                   llm_requests, interrupts>>

\* lines 93-111: the model returns a turn and it is parsed
ModelTurn(text) ==
    /\ agent_pc = "model"
    /\ next_id + 2 <= MaxMessages
    /\ llm_requests' = llm_requests + 1
    /\ response' = text
    /\ LET parsed == ParseAiResponse(text)
       IN  IF parsed.outcome = "raised"
           THEN /\ Raise("TypeError")
                /\ UNCHANGED loopVars
           ELSE /\ agent_pc' = "dispatch"
                /\ turn_blocks' = parsed.content_blocks
                /\ block_index' = 1
                /\ tool_calls' = << >>
                /\ text_content' = << >>
                /\ tool_response' = << >>
                /\ is_task_completed' = FALSE
                /\ events' = <<Event("model", 0)>>
                /\ UNCHANGED <<exit_cause, running_tool, terminal_session, sessions, cleanups,
                               status_printed>>
    /\ GetContextCall
    /\ UNCHANGED <<task, ip, toolVars, interrupts, parseLocals>>

\* line 94: self.llm.invoke raises
ModelFails ==
    /\ agent_pc = "model"
    /\ next_id + 2 <= MaxMessages
    /\ llm_requests' = llm_requests + 1
    /\ Raise("LLMError")
    /\ GetContextCall
    /\ UNCHANGED <<task, ip, toolVars, loopVars, interrupts, parserVars>>

\* lines 133-134: a text block
DispatchText ==
    /\ agent_pc = "dispatch"
    /\ block_index <= Len(turn_blocks)
    /\ turn_blocks[block_index].type = TEXT_CHUNK
    /\ text_content' = text_content \o turn_blocks[block_index].content \o <<"\n", "\n">>
    /\ block_index' = NextIndex(block_index)
    /\ UNCHANGED <<task, ip, toolVars, agent_pc, exit_cause, turn_blocks, tool_calls, tool_response,
                   is_task_completed, running_tool, events, terminal_session, sessions, cleanups,
                   status_printed, llm_requests, interrupts, storeVars, parserVars>>

\* lines 113-132 and invoke_tool up to the call of the tool
DispatchCall ==
    /\ agent_pc = "dispatch"
    /\ block_index <= Len(turn_blocks)
    /\ turn_blocks[block_index].type = TOOL_CALL
    /\ LET block == turn_blocks[block_index]
           entry == InvokeToolEntry(block)
       IN  /\ tool_calls' = Append(tool_calls,
                                   [tool_name |-> block.tool, args |-> block.params])
           /\ \E session_created \in SessionOutcomes(terminal_session, block.tool) :
                 IF ~session_created
                 THEN /\ agent_pc' = "exited"
                      /\ exit_cause' = "EnvironmentError"
                      /\ UNCHANGED <<terminal_session, sessions, tool_response,
                                     block_index, running_tool, events>>
                 ELSE /\ terminal_session' = (terminal_session \/ block.tool = shell)
                      /\ sessions' = SessionsAfterDispatch(terminal_session, sessions, block.tool)
                      /\ IF entry = "TypeError"
                         THEN /\ agent_pc' = "exited"
                              /\ exit_cause' = "TypeError"
                              /\ UNCHANGED <<tool_response, block_index, running_tool, events>>
                         ELSE IF entry \in {"missing", "not found"}
                         THEN /\ tool_response' = tool_response \o EarlyReturn(block, entry)
                                                               \o <<"\n", "\n">>
                              /\ block_index' = IF block.tool = attempt_completion
                                                THEN Len(turn_blocks) + 1
                                                ELSE NextIndex(block_index)
                              /\ events' = events \o <<Event("start", block_index),
                                                       Event("end", block_index)>>
                              /\ UNCHANGED <<agent_pc, exit_cause, running_tool>>
                         ELSE /\ agent_pc' = "running"
                              /\ running_tool' = block
                              /\ events' = Append(events, Event("start", block_index))
                              /\ UNCHANGED <<exit_cause, tool_response, block_index>>
    /\ UNCHANGED <<task, ip, toolVars, turn_blocks, text_content, is_task_completed, cleanups,
                   status_printed, llm_requests, interrupts, storeVars, parserVars>>

\* a tool other than shell returns; lines 124-130 for attempt_completion
FinishTool ==
    /\ agent_pc = "running"
    /\ running_tool.tool # shell
    /\ IF running_tool.tool = attempt_completion
       THEN \E user_satisfied \in BOOLEAN :
               /\ is_task_completed' = user_satisfied
               /\ tool_response' = tool_response \o DictGet(running_tool.params, result)
                                                 \o <<"\n", "\n">>
               /\ block_index' = Len(turn_blocks) + 1
       ELSE \E returned \in ToolReturns(running_tool.tool) :
               /\ tool_response' = tool_response \o returned \o <<"\n", "\n">>
               /\ block_index' = NextIndex(block_index)
               /\ UNCHANGED is_task_completed
    /\ agent_pc' = "dispatch"
    /\ running_tool' = None
    /\ events' = Append(events, Event("end", block_index))
    /\ UNCHANGED <<task, ip, toolVars, exit_cause, turn_blocks, tool_calls, text_content,
                   terminal_session, sessions, cleanups, status_printed, llm_requests, interrupts,
                   storeVars, parserVars>>

\* the tool's body raises
ToolRaises ==
    /\ agent_pc = "running"
    /\ ToolMayRaise(running_tool.tool)
    /\ Raise("ToolError")
    /\ UNCHANGED <<task, ip, toolVars, loopVars, llm_requests, interrupts, storeVars, parserVars>>

\* ShellTool.__call__ lines 34-37: the approval question; then the command is sent
ShellApproval ==
    /\ agent_pc = "running"
    /\ running_tool.tool = shell
    /\ IF Lower(DictGet(running_tool.params, requires_approval)) = <<"t", "r", "u", "e">>
       THEN \E answer \in ApprovalAnswers :
               /\ ip' = {answer}
               /\ IF Lower(answer) = <<"n">>
                  THEN /\ tool_response' = tool_response \o DeniedText \o <<"\n", "\n">>
                       /\ block_index' = NextIndex(block_index)
                       /\ agent_pc' = "dispatch"
                       /\ running_tool' = None
                       /\ events' = Append(events, Event("end", block_index))
                  ELSE /\ agent_pc' = "polling"
                       /\ UNCHANGED <<tool_response, block_index, running_tool, events>>
       ELSE /\ agent_pc' = "polling"
            /\ UNCHANGED <<ip, tool_response, block_index, running_tool, events>>
    /\ UNCHANGED <<task, toolVars, exit_cause, turn_blocks, tool_calls, text_content,
                   is_task_completed, terminal_session, sessions, cleanups, status_printed,
                   llm_requests, interrupts, storeVars, parserVars>>

\* send_command_and_capture lines 81-83: a tmux send-keys call exits non-zero and
\* CalledProcessError leaves the method, the tool and invoke_tool
ShellSendFails ==
    /\ agent_pc = "polling"
    /\ Raise("CalledProcessError")
    /\ UNCHANGED <<task, ip, toolVars, loopVars, llm_requests, interrupts, storeVars,
                   parserVars>>

\* send_command_and_capture lines 97-132: the markers are found, or max_wait passes
ShellCaptured ==
    /\ agent_pc = "polling"
    /\ \E output \in CapturedOutputs \cup {TimeoutText} :
          tool_response' = tool_response \o CommandOutputPrefix \o output \o <<"\n", "\n">>
    /\ block_index' = NextIndex(block_index)
    /\ agent_pc' = "dispatch"
    /\ running_tool' = None
    /\ events' = Append(events, Event("end", block_index))
    /\ UNCHANGED <<task, ip, toolVars, exit_cause, turn_blocks, tool_calls, text_content,
                   is_task_completed, terminal_session, sessions, cleanups, status_printed,
                   llm_requests, interrupts, storeVars, parserVars>>

\* where invoke goes after the result of the iteration is stored (lines 162-166)
AfterIteration(outcome) ==
    IF outcome # "ok"
    THEN Raise(outcome)
    ELSE IF is_task_completed
    THEN /\ Cleanup
         /\ agent_pc' = "exited"
         /\ exit_cause' = "completed"
         /\ UNCHANGED status_printed
    ELSE /\ agent_pc' = "model"
         /\ UNCHANGED <<exit_cause, terminal_session, sessions, cleanups, status_printed>>

\* lines 136-140: the ai message of the iteration
StoreAi ==
    /\ agent_pc = "dispatch"
    /\ block_index > Len(turn_blocks)
    /\ LET message == [type |-> "ai", content |-> Strip(text_content),
                       tool_calls |-> tool_calls]
       IN  \/ \E summary \in Summaries : AddAi(message, summary)
           \/ AddAiSummaryFails(message)
    /\ Called
    /\ IF call_log'[Len(call_log')].outcome = "ok"
       THEN /\ agent_pc' = "store_result"
            /\ UNCHANGED <<exit_cause, terminal_session, sessions, cleanups, status_printed>>
       ELSE Raise(call_log'[Len(call_log')].outcome)
    /\ events' = Append(events, Event("ai", 0))
    /\ UNCHANGED <<task, ip, toolVars, turn_blocks, block_index, tool_calls, text_content, tool_response,
                   is_task_completed, running_tool, llm_requests, interrupts>>

ResultType_AlwaysTool(output) == "tool"
\* a loop that would ask the user only when no tool returned anything at all
ResultType_UserWhenNoOutput(output) == IF output = << >> THEN "user" ELSE "tool"
\* line 143: a blank aggregated tool output makes the iteration end with a user message
ResultType(output) == IF Strip(output) = << >> THEN "user" ELSE "tool"

\* lines 143-150: the user is asked and the answer is stored as a user message
StoreUser ==
    /\ agent_pc = "store_result"
    /\ ResultType(tool_response) = "user"
    /\ \E typed \in UserInputs :
          /\ tool_response' = typed
          /\ AddPlain([type |-> "user", content |-> Strip(typed), tool_calls |-> << >>])
    /\ Called
    /\ AfterIteration("ok")
    /\ events' = Append(events, Event("result", 0))
    /\ UNCHANGED <<task, ip, toolVars, turn_blocks, block_index, tool_calls, text_content,
                   is_task_completed, running_tool, llm_requests, interrupts>>

\* lines 151-155: the aggregated tool output is stored as a tool message
StoreTool ==
    /\ agent_pc = "store_result"
    /\ ResultType(tool_response) = "tool"
    /\ LET message == [type |-> "tool", content |-> Strip(tool_response),
                       tool_calls |-> << >>]
       IN  \/ \E is_successful \in BOOLEAN, goal_achieved \in BOOLEAN :
                 AddToolLinked(message, is_successful, goal_achieved)
           \/ AddToolUnlinked(message)
           \/ AddToolKeyError(message)
           \/ AddToolSuccessCheckFails(message)
           \/ AddToolGoalCheckFails(message)
    /\ Called
    /\ AfterIteration(call_log'[Len(call_log')].outcome)
    /\ events' = Append(events, Event("result", 0))
    /\ UNCHANGED <<task, ip, toolVars, turn_blocks, block_index, tool_calls, text_content, tool_response,
                   is_task_completed, running_tool, llm_requests, interrupts>>

\* KeyboardInterrupt between lines 79 and 90, outside the try: it leaves invoke
InterruptBeforeLoop ==
    /\ agent_pc = "prompted"
    /\ interrupts' = interrupts + 1
    /\ Raise("KeyboardInterrupt")
    /\ UNCHANGED <<task, ip, toolVars, loopVars, llm_requests, storeVars, parserVars>>

\* KeyboardInterrupt inside the try of line 91, anywhere but in the capture loop:
\* the handler of lines 167-170 runs
Interrupt ==
    /\ agent_pc \in {"model", "dispatch", "running", "store_result"}
    /\ interrupts' = interrupts + 1
    /\ Cleanup
    /\ status_printed' = TRUE
    /\ agent_pc' = "exited"
    /\ exit_cause' = "interrupt"
    /\ UNCHANGED <<task, ip, toolVars, loopVars, llm_requests, storeVars, parserVars>>

\* KeyboardInterrupt inside the try of send_command_and_capture (lines 97-117): it is
\* caught there, found_end is false and the timeout text is returned to the loop
InterruptCapture ==
    /\ agent_pc = "polling"
    /\ interrupts' = interrupts + 1
    /\ tool_response' = tool_response \o CommandOutputPrefix \o TimeoutText \o <<"\n", "\n">>
    /\ block_index' = NextIndex(block_index)
    /\ agent_pc' = "dispatch"
    /\ running_tool' = None
    /\ events' = Append(events, Event("end", block_index))
    /\ UNCHANGED <<task, ip, toolVars, exit_cause, turn_blocks, tool_calls, text_content,
                   is_task_completed, terminal_session, sessions, cleanups, status_printed,
                   llm_requests, storeVars, parserVars>>

\* main.py lines 22-25: finally: ag.cleanup()
MainFinally ==
    /\ agent_pc = "exited"
    /\ Cleanup
    /\ agent_pc' = "finished"
    /\ UNCHANGED <<task, ip, toolVars, exit_cause, loopVars, status_printed, llm_requests, interrupts,
                   storeVars, parserVars>>

\* Agent.__init__ lines 19-20 and the locals of invoke before it is called
LoopIdle ==
    /\ agent_pc = "idle"
    /\ exit_cause = "none"
    /\ turn_blocks = << >>
    /\ block_index = 1
    /\ tool_calls = << >>
    /\ text_content = << >>
    /\ tool_response = << >>
    /\ is_task_completed = FALSE
    /\ running_tool = None
    /\ terminal_session = FALSE
    /\ sessions = << >>
    /\ cleanups = 0
    /\ status_printed = FALSE
    /\ llm_requests = 0
    /\ interrupts = 0
    /\ ip = {}
    /\ events = << >>

\* the agent before invoke is called, in an empty working directory
AgentIdle ==
    /\ LoopIdle
    /\ files = EmptyDirectory
    /\ ToolsIdle

vars == <<parserVars, storeVars, agentVars>>

\* the parser before any response is given to it
ParserIdle ==
    /\ response = << >>
    /\ ind = 0
    /\ accumulator = << >>
    /\ current_tool = None
    /\ current_tool_required_params = << >>
    /\ param_start_index = -1
    /\ current_param = None
    /\ all_params = << >>
    /\ content_blocks = << >>
    /\ pc = "scan"
    /\ seg_start = 0
    /\ spans = << >>


ParserNext ==
    \/ ScanOutside /\ UNCHANGED <<storeVars, agentVars>>
    \/ ScanInside /\ UNCHANGED <<storeVars, agentVars>>
    \/ Finish /\ UNCHANGED <<storeVars, agentVars>>

\* parse_ai_response on its own: no store is involved
ParserSpecInit ==
    ParserInit /\ StoreInit /\ compress_on_add = TRUE /\ AgentIdle /\ task = << >>

ParserSpec == ParserSpecInit /\ [][ParserNext]_vars

\* tool calls as add_message keeps them (tool_name, args): registered tools with
\* declared arguments, no value holding the closing tag of its own argument
SerializedCalls ==
    WellFormedCalls
    \cup {[tool_name |-> shell,
           args |-> <<[k |-> command, v |-> <<"c">>], [k |-> requires_approval, v |-> <<"n">>]>>],
          [tool_name |-> browser_actions, args |-> << >>],
          [tool_name |-> grep_search_text,
           args |-> <<[k |-> path, v |-> <<"f">>], [k |-> pattern, v |-> <<"p">>],
                      [k |-> include, v |-> <<"*">>]>>],
          [tool_name |-> attempt_completion, args |-> <<[k |-> result, v |-> <<"r">>]>>],
          [tool_name |-> read_file, args |-> <<[k |-> path, v |-> <<" ", "f", "\n">>]>>],
          [tool_name |-> read_file, args |-> <<[k |-> path, v |-> StartTag(path)]>>],
          [tool_name |-> read_file, args |-> <<[k |-> path, v |-> EndTag(read_file)]>>],
          [tool_name |-> write_to_file,
           args |-> <<[k |-> path, v |-> <<"f">>], [k |-> content, v |-> StartTag(path)]>>]}

\* parse_ai_response(_tool_string(tool_call))
RoundTripSpecInit ==
    /\ response \in {ToolString(tool_call) : tool_call \in SerializedCalls}
    /\ ind = 0
    /\ accumulator = << >>
    /\ current_tool = None
    /\ current_tool_required_params = << >>
    /\ param_start_index = -1
    /\ current_param = None
    /\ all_params = << >>
    /\ content_blocks = << >>
    /\ pc = "scan"
    /\ seg_start = 0
    /\ spans = << >>
    /\ StoreInit /\ compress_on_add = TRUE /\ AgentIdle /\ task = << >>

RoundTripSpec == RoundTripSpecInit /\ [][ParserNext]_vars

\* add_message(message), by the path it takes
StoreNext ==
    \/ \E message \in MessageInputs : AddPlain(message) /\ Called /\ UNCHANGED agentVars
    \/ \E message \in MessageInputs, summary \in Summaries : AddAi(message, summary) /\ Called /\ UNCHANGED agentVars
    \/ \E message \in MessageInputs : AddToolUnlinked(message) /\ Called /\ UNCHANGED agentVars
    \/ \E message \in MessageInputs : AddToolKeyError(message) /\ Called /\ UNCHANGED agentVars
    \/ \E message \in MessageInputs, is_successful \in BOOLEAN, goal_achieved \in BOOLEAN :
          AddToolLinked(message, is_successful, goal_achieved) /\ Called /\ UNCHANGED agentVars
    \/ \E message \in MessageInputs : AddAiSummaryFails(message) /\ Called /\ UNCHANGED agentVars
    \/ \E message \in MessageInputs : AddToolSuccessCheckFails(message) /\ Called /\ UNCHANGED agentVars
    \/ \E message \in MessageInputs : AddToolGoalCheckFails(message) /\ Called /\ UNCHANGED agentVars

StoreSpecInit == StoreInit /\ ParserIdle /\ AgentIdle /\ task = << >>

StoreSpec == StoreSpecInit /\ [][StoreNext]_vars

\* the ContextManager used through both of its methods, add_message(message) and
\* get_context(), in runs of at most MaxAppends add_message calls
ContextNext ==
    \/ \E message \in ContextInputs :
          AddPlain(message) /\ CalledWithin(MaxAppends) /\ UNCHANGED agentVars
    \/ \E message \in ContextInputs, summary \in Summaries :
          AddAi(message, summary) /\ CalledWithin(MaxAppends) /\ UNCHANGED agentVars
    \/ \E message \in ContextInputs :
          AddToolUnlinked(message) /\ CalledWithin(MaxAppends) /\ UNCHANGED agentVars
    \/ \E message \in ContextInputs :
          AddToolKeyError(message) /\ CalledWithin(MaxAppends) /\ UNCHANGED agentVars
    \/ \E message \in ContextInputs, is_successful \in BOOLEAN, goal_achieved \in BOOLEAN :
          AddToolLinked(message, is_successful, goal_achieved)
          /\ CalledWithin(MaxAppends) /\ UNCHANGED agentVars
    \/ \E message \in ContextInputs :
          AddAiSummaryFails(message) /\ CalledWithin(MaxAppends) /\ UNCHANGED agentVars
    \/ \E message \in ContextInputs :
          AddToolSuccessCheckFails(message) /\ CalledWithin(MaxAppends) /\ UNCHANGED agentVars
    \/ \E message \in ContextInputs :
          AddToolGoalCheckFails(message) /\ CalledWithin(MaxAppends) /\ UNCHANGED agentVars
    \/ GetContextCall /\ UNCHANGED <<parserVars, agentVars>>

ContextSpecInit == StoreInit /\ ParserIdle /\ AgentIdle /\ task = << >>

ContextSpec == ContextSpecInit /\ [][ContextNext]_vars

\* add_message(message) when _generate_message_id may hand out an id a second time
IdNext ==
    \/ \E message \in IdInputs :
          AddPlain(message) /\ CalledRepeating /\ UNCHANGED agentVars
    \/ \E message \in IdInputs, summary \in Summaries :
          AddAi(message, summary) /\ CalledRepeating /\ UNCHANGED agentVars
    \/ \E message \in IdInputs :
          AddToolUnlinked(message) /\ CalledRepeating /\ UNCHANGED agentVars
    \/ \E message \in IdInputs, is_successful \in BOOLEAN, goal_achieved \in BOOLEAN :
          AddToolLinked(message, is_successful, goal_achieved)
          /\ CalledRepeating /\ UNCHANGED agentVars
    \/ \E message \in IdInputs :
          AddAiSummaryFails(message) /\ CalledRepeating /\ UNCHANGED agentVars
    \/ \E message \in IdInputs :
          AddToolSuccessCheckFails(message) /\ CalledRepeating /\ UNCHANGED agentVars
    \/ \E message \in IdInputs :
          AddToolGoalCheckFails(message) /\ CalledRepeating /\ UNCHANGED agentVars

IdSpecInit == StoreInit /\ compress_on_add = TRUE /\ ParserIdle /\ AgentIdle /\ task = << >>

IdSpec == IdSpecInit /\ [][IdNext]_vars

\* the tool calls given to invoke_tool on its own: a name that is not registered, the
\* three file tools, a call that lacks a required parameter, a tool whose params is a list
UnregisteredCall ==
    [type |-> TOOL_CALL, tool |-> <<"r", "m">>, params |-> <<[k |-> path, v |-> <<"f">>]>>]
InvokedCalls ==
    {UnregisteredCall,
     [type |-> TOOL_CALL, tool |-> replace_in_file,
      params |-> <<[k |-> path, v |-> <<"f">>], [k |-> diff, v |-> DiffOf(<<"a">>, <<"x">>)]>>],
     [type |-> TOOL_CALL, tool |-> replace_in_file, params |-> <<[k |-> path, v |-> <<"f">>]>>],
     [type |-> TOOL_CALL, tool |-> write_to_file,
      params |-> <<[k |-> path, v |-> <<"f">>], [k |-> content, v |-> <<"c", "\n">>]>>],
     [type |-> TOOL_CALL, tool |-> read_file, params |-> <<[k |-> path, v |-> <<"f">>]>>],
     [type |-> TOOL_CALL, tool |-> ask_user, params |-> <<[k |-> question, v |-> <<"q">>]>>]}

\* line 72, **params: the arguments of the tool's __call__, in the order of its signature
Arguments(block) ==
    [i \in 1..Len(ToolOf(block.tool).params.required) |->
        PyStr(DictGet(block.params, ToolOf(block.tool).params.required[i]))]

\* line 72, tool_executable(**params), for the file tools
ToolExecutable(fs, block) ==
    IF block.tool = write_to_file
    THEN WriteToFileTool(fs, Arguments(block)[1].str, Arguments(block)[2].str)
    ELSE IF block.tool = replace_in_file
    THEN ReplaceInFileTool(fs, Arguments(block)[1], Arguments(block)[2])
    ELSE ReadFileTool(fs, Arguments(block)[1].str)

\* Agent.invoke_tool(tool_call), called on its own
InvokeTool ==
    \E block \in InvokedCalls :
       LET entry == InvokeToolEntry(block)
       IN  /\ invoked' = {block}
           /\ IF entry = "call"
              THEN ToolCalled(block.tool, Arguments(block), ToolExecutable(files, block))
              ELSE /\ tool_result' = IF entry = "TypeError" THEN Raised("TypeError")
                                     ELSE Returned(EarlyReturn(block, entry))
                   /\ file_opens' = << >>
                   /\ replacements' = << >>
                   /\ last_tool_call' = {}
                   /\ UNCHANGED <<files, captureVars>>

\* ReplaceInFileTool()(path, diff), called as the tests call it
CallReplaceInFile ==
    \E path_arg \in PathArgs, diff_arg \in DiffArgs :
       /\ ToolCalled(replace_in_file, <<path_arg, diff_arg>>,
                     ReplaceInFileTool(files, path_arg, diff_arg))
       /\ invoked' = {}

\* WriteToFileTool()(path, content)
CallWriteToFile ==
    \E path_str \in WrittenPaths, text \in WrittenContents :
       /\ ToolCalled(write_to_file, <<PyStr(path_str), PyStr(text)>>,
                     WriteToFileTool(files, path_str, text))
       /\ invoked' = {}

\* ReadFileTool()(path)
CallReadFile ==
    \E path_str \in Paths :
       /\ ToolCalled(read_file, <<PyStr(path_str)>>, ReadFileTool(files, path_str))
       /\ invoked' = {}

\* the tools called one after the other on one working directory, through invoke_tool
\* and directly
ToolNext ==
    \/ InvokeTool /\ UNCHANGED <<parserVars, storeVars, runVars>>
    \/ CallReplaceInFile /\ UNCHANGED <<parserVars, storeVars, runVars>>
    \/ CallWriteToFile /\ UNCHANGED <<parserVars, storeVars, runVars>>
    \/ CallReadFile /\ UNCHANGED <<parserVars, storeVars, runVars>>

ToolSpecInit ==
    /\ StoreInit /\ compress_on_add = TRUE
    /\ ParserIdle
    /\ LoopIdle
    /\ task = << >>
    /\ files \in FileSystems
    /\ ToolsIdle

ToolSpec == ToolSpecInit /\ [][ToolNext]_vars

\* the variables of the file tools and of invoke_tool
fileVars == <<files, tool_result, file_opens, last_tool_call, invoked, replacements>>

\* one call of TerminalSession.send_command_and_capture
CaptureNext ==
    \/ SendKeys /\ UNCHANGED <<parserVars, storeVars, runVars, fileVars>>
    \/ Poll /\ UNCHANGED <<parserVars, storeVars, runVars, fileVars>>
    \/ PollRaises /\ UNCHANGED <<parserVars, storeVars, runVars, fileVars>>
    \/ TimedOut /\ UNCHANGED <<parserVars, storeVars, runVars, fileVars>>

CaptureSpecInit ==
    /\ StoreInit /\ compress_on_add = TRUE
    /\ ParserIdle
    /\ AgentIdle
    /\ task = << >>

CaptureSpec == CaptureSpecInit /\ [][CaptureNext]_vars

\* main.py: one Agent, one invoke, then cleanup
AgentNext ==
    \/ InvokeBlank
    \/ InvokeSystem
    \/ InvokeUser
    \/ \E text \in AgentResponses : ModelTurn(text)
    \/ ModelFails
    \/ DispatchText
    \/ DispatchCall
    \/ FinishTool
    \/ ToolRaises
    \/ ShellApproval
    \/ ShellSendFails
    \/ ShellCaptured
    \/ StoreAi
    \/ StoreUser
    \/ StoreTool
    \/ InterruptBeforeLoop
    \/ Interrupt
    \/ InterruptCapture
    \/ MainFinally

AgentSpecInit ==
    /\ StoreInit /\ compress_on_add = TRUE
    /\ ParserIdle
    /\ AgentIdle
    /\ task \in Tasks

AgentSpec == AgentSpecInit /\ [][AgentNext]_vars

(***************************************************************************)
(* Properties of parse_ai_response (ParserSpec).                           *)
(***************************************************************************)
LastBlock == content_blocks[Len(content_blocks)]

\* C1: when parse_ai_response returns, the input spans of the emitted segments
\* partition the response: they are contiguous from offset 0 to the end of the
\* input, one per segment, and a text segment's content is the text of its span.
C1_SegmentsPartitionInput ==
    pc = "returned" =>
        /\ Len(spans) = Len(content_blocks)
        /\ \A i \in 1..Len(spans) :
              /\ spans[i][1] = (IF i = 1 THEN 0 ELSE spans[i - 1][2])
              /\ spans[i][1] <= spans[i][2]
              /\ content_blocks[i].type = TEXT_CHUNK =>
                    content_blocks[i].content = PySlice(response, spans[i][1], spans[i][2])
        /\ (IF spans = << >> THEN 0 ELSE spans[Len(spans)][2]) = Len(response)

\* C2: when the scan ends with a tool open, the last segment returned is a tool call
\* for that tool carrying the finalized parameters and, if a parameter is still open,
\* its partial value up to the end of the input.
C2_TruncatedCallEmitted ==
    (pc = "returned" /\ current_tool # None) =>
        /\ content_blocks # << >>
        /\ LastBlock.type = TOOL_CALL
        /\ LastBlock.tool = current_tool
        /\ LastBlock.params = all_params
        /\ current_param # None =>
              /\ DictHas(LastBlock.params, current_param)
              /\ DictGet(LastBlock.params, current_param) =
                    PySlice(accumulator, param_start_index, Len(accumulator))

\* C3: while a parameter is open, a scan step either leaves it open with its start
\* offset untouched or ends it: no other delimiter opens or re-opens a parameter.
C3_OpenParamIgnoresOtherTags ==
    [][(pc = "scan" /\ current_param # None) =>
          \/ current_param' = None
          \/ (current_param' = current_param /\ param_start_index' = param_start_index)]_vars

\* C4: a scan step taken while a parameter is open never closes the tool and never
\* emits a segment; the tool closes only from the state with no parameter open.
C4_ToolClosesOnlyWithNoParamOpen ==
    [][(pc = "scan" /\ current_param # None /\ ind' = ind + 1) =>
          (current_tool' = current_tool /\ content_blocks' = content_blocks)]_vars

\* C5: parse_ai_response never raises, whatever tool of TOOLS_DICT the response opens.
C5_ParserNeverRaises == pc # "raised"

\* C21: at most one tool is open at any point of the scan: a step taken while a tool
\* is open keeps that tool open or closes it, never opens another (or the same) tool
\* again, and adds no segment other than the one call of the tool that was open.
C21_NoToolOpensInsideTool ==
    [][(pc = "scan" /\ current_tool # None) =>
          /\ current_tool' \in {current_tool, None}
          /\ \/ content_blocks' = content_blocks
             \/ /\ Len(content_blocks') = Len(content_blocks) + 1
                /\ SubSeq(content_blocks', 1, Len(content_blocks)) = content_blocks
                /\ content_blocks'[Len(content_blocks')].type = TOOL_CALL
                /\ content_blocks'[Len(content_blocks')].tool = current_tool
                /\ (current_tool' = None \/ pc' = "returned")]_vars

\* a tool is open and the scan has just read the start tag of a tool inside it
C21_Witness ==
    /\ pc = "scan"
    /\ current_tool # None
    /\ Len(accumulator) > Len(StartTag(current_tool))
    /\ \E i \in 1..Len(TOOLS_DICT) : EndsWith(accumulator, StartTag(TOOLS_DICT[i].name))
    /\ content_blocks = << >>

(***************************************************************************)
(* Properties of ContextManager.add_message (StoreSpec).                   *)
(***************************************************************************)
LastCall == call_log[Len(call_log)]
LedgerIds(pending) ==
    {pending[i][1] : i \in 1..Len(pending)} \cup {pending[i][2] : i \in 1..Len(pending)}
\* the add_message call that created the message msg_id
CallOf(msg_id) == call_log[CHOOSE j \in 1..Len(call_log) : call_log[j].msg_id = msg_id]

\* C6: a step in which the result is classified successful, the ledger is non-empty
\* and the goal is judged achieved deletes exactly the turns the ledger references
\* except the first entry's assistant turn, and leaves the ledger empty.
C6_PruneDeletesLedgerTurns ==
    [][(/\ call_log' # call_log
        /\ call_log'[Len(call_log')].success = {TRUE}
        /\ call_log'[Len(call_log')].goal = {TRUE}
        /\ pending_failed_tool_calls # << >>) =>
          /\ HistoryIds(context_history') =
                (HistoryIds(context_history)
                    \ (LedgerIds(pending_failed_tool_calls)
                          \ {pending_failed_tool_calls[1][1]}))
                \cup {last_message_id'}
          /\ pending_failed_tool_calls[1][1] \in HistoryIds(context_history')
          /\ LedgerIds(pending_failed_tool_calls) \cap HistoryIds(context_history')
                = {pending_failed_tool_calls[1][1]}
          /\ pending_failed_tool_calls' = << >>]_vars

\* a prune of a ledger of two entries or more has just happened
C6_Witness ==
    /\ call_log # << >>
    /\ LastCall.goal = {TRUE}
    /\ pending_failed_tool_calls = << >>
    /\ Len(context_history) = 3
    /\ Len(call_log) = 6

IsAiWithCall(e) == e.type = "ai" /\ e.has_call
IsFailedResult(e) == e.type = "tool" /\ e.success = {FALSE}
IsResolvingResult(e) == e.type = "tool" /\ e.success = {TRUE} /\ e.goal = {TRUE}

\* the appends so far: k system or user turns, then assistant, failed result,
\* assistant, failed result, assistant, successful result judged to achieve the goal
RetryScenario(k) ==
    /\ Len(call_log) = k + 6
    /\ \A i \in 1..k : call_log[i].type \in {"system", "user"}
    /\ IsAiWithCall(call_log[k + 1]) /\ IsFailedResult(call_log[k + 2])
    /\ IsAiWithCall(call_log[k + 3]) /\ IsFailedResult(call_log[k + 4])
    /\ IsAiWithCall(call_log[k + 5]) /\ IsResolvingResult(call_log[k + 6])

ScenarioIds(k) == {call_log[i].msg_id : i \in (k + 1)..(k + 6)}
ScenarioKept(k, positions) == {call_log[k + i].msg_id : i \in positions}

\* C7 as stated: after the retry scenario the history holds, of its six turns, the
\* first assistant turn with its failed result and the final assistant turn with its
\* successful result.
C7_FirstPairAndFinalPairKept ==
    \A k \in 0..MaxMessages :
        RetryScenario(k) =>
            HistoryIds(context_history) \cap ScenarioIds(k) = ScenarioKept(k, {1, 2, 5, 6})

\* C7 amended: after the retry scenario the history holds, of its six turns, the first
\* assistant turn (without its failed result) and the final assistant turn with its
\* successful result.
C7_FirstAssistantAndFinalPairKept ==
    \A k \in 0..MaxMessages :
        RetryScenario(k) =>
            HistoryIds(context_history) \cap ScenarioIds(k) = ScenarioKept(k, {1, 5, 6})

C7_Witness == \E k \in 0..MaxMessages : RetryScenario(k)

\* C8: a step in which the result is classified successful, the ledger is non-empty
\* and the goal is judged not achieved deletes no turn, keeps the ledger's entries in
\* order and appends <<assistant turn id, result turn id>> to it.
C8_UnresolvedSuccessKeepsLedger ==
    [][(/\ call_log' # call_log
        /\ call_log'[Len(call_log')].success = {TRUE}
        /\ call_log'[Len(call_log')].goal = {FALSE}
        /\ pending_failed_tool_calls # << >>) =>
          /\ Len(context_history') = Len(context_history) + 1
          /\ HistoryIds(context_history') =
                HistoryIds(context_history) \cup {call_log'[Len(call_log')].msg_id}
          /\ pending_failed_tool_calls' =
                Append(pending_failed_tool_calls,
                       <<last_message_id, call_log'[Len(call_log')].msg_id>>)]_vars

\* a success judged not to achieve the goal has just been appended to a ledger of two
C8_Witness ==
    /\ call_log # << >>
    /\ LastCall.goal = {FALSE}
    /\ Len(pending_failed_tool_calls) = 3
    /\ Len(context_history) = 6

C10_LinkageReferencesLiveAssistant ==
    \A i \in 1..Len(context_history) :
        LET m == context_history[i]
        IN  (m.type = "tool" /\ m.metadata.is_response_to # {}) =>
                \A r \in m.metadata.is_response_to :
                    /\ r \in HistoryIds(context_history)
                    /\ Message(context_history, r).type = "ai"
                    /\ Message(context_history, r).metadata.tool_call # {}

\* a prune has just happened and linked tool turns remain in the history
C10_Witness ==
    /\ call_log # << >>
    /\ LastCall.goal = {TRUE}
    /\ Len(context_history) < Len(call_log) - 2
    /\ \E i \in 1..Len(context_history) :
          /\ context_history[i].type = "tool"
          /\ context_history[i].metadata.is_response_to # {}

\* the last message is an ai message that carries a tool call
PrecededByCall ==
    /\ LastIsAi
    /\ Message(context_history, last_message_id).metadata.tool_call # {}

\* C11: a tool message added when the preceding message is not an ai message carrying
\* a tool call (empty history, a preceding system, user or tool message, or an ai
\* message without tool call) is stored verbatim, without linkage and without any
\* judgment, the ledger and all other messages are unchanged, and the call returns.
C11_UnlinkedResultStoredVerbatim ==
    [][(/\ call_log' # call_log
        /\ call_log'[Len(call_log')].type = "tool"
        /\ ~PrecededByCall)
       => /\ call_log'[Len(call_log')].outcome = "ok"
          /\ call_log'[Len(call_log')].success = {}
          /\ call_log'[Len(call_log')].goal = {}
          /\ \E message \in MessageInputs :
                /\ message.type = "tool"
                /\ context_history' =
                       Append(context_history,
                              NewMessage(call_log'[Len(call_log')].msg_id, message))
          /\ pending_failed_tool_calls' = pending_failed_tool_calls]_vars

\* C12: add_message changes an existing message only by setting tool_successful on
\* the immediately preceding ai message when a tool message arrives, or by deleting
\* it when the goal is judged achieved; adding a system, user or ai message leaves
\* every existing message and the ledger unchanged.
C12_OnlyFlagAndPruningTouchOldTurns ==
    [][call_log' # call_log
       => /\ \A i \in 1..Len(context_history) :
                \/ /\ context_history[i].id \notin HistoryIds(context_history')
                   /\ call_log'[Len(call_log')].type = "tool"
                   /\ call_log'[Len(call_log')].goal = {TRUE}
                \/ /\ context_history[i].id \in HistoryIds(context_history')
                   /\ Message(context_history', context_history[i].id) = context_history[i]
                \/ /\ context_history[i].id \in HistoryIds(context_history')
                   /\ call_log'[Len(call_log')].type = "tool"
                   /\ call_log'[Len(call_log')].success # {}
                   /\ context_history[i].id = last_message_id
                   /\ context_history[i].type = "ai"
                   /\ Message(context_history', context_history[i].id) =
                          [context_history[i] EXCEPT
                              !.metadata.tool_successful = call_log'[Len(call_log')].success]
          /\ call_log'[Len(call_log')].type \in {"system", "user", "ai"}
                => /\ pending_failed_tool_calls' = pending_failed_tool_calls
                   /\ Len(context_history') >= Len(context_history)
                   /\ \A i \in 1..Len(context_history) :
                          context_history'[i] = context_history[i]]_vars

\* a tool message was judged while the history holds an earlier ai message as well
C12_Witness ==
    /\ call_log # << >>
    /\ LastCall.type = "tool"
    /\ LastCall.success # {}
    /\ Cardinality({i \in 1..Len(context_history) : context_history[i].type = "ai"}) >= 2

\* C17: when a judgment call (summarise, classify success, goal achieved) raises
\* during add_message, the call ends with that failure and adds no message, deletes
\* no message and leaves the ledger unchanged.
C17_FailedJudgmentAddsAndDeletesNothing ==
    [][(/\ call_log' # call_log
        /\ call_log'[Len(call_log')].outcome = "LLMError")
       => /\ Len(context_history') = Len(context_history)
          /\ \A i \in 1..Len(context_history) :
                context_history'[i].id = context_history[i].id
          /\ pending_failed_tool_calls' = pending_failed_tool_calls
          /\ last_message_id' = last_message_id]_vars

\* the goal judgment raised after the result had been classified successful
C17_Witness ==
    /\ call_log # << >>
    /\ LastCall.outcome = "LLMError"
    /\ LastCall.success = {TRUE}
    /\ pending_failed_tool_calls # << >>

(***************************************************************************)
(* Properties of parse_ai_response on well-formed responses (ParserSpec).  *)
(***************************************************************************)

\* the completeness mark a segment carries: the value of its "complete" field
CompleteMark(block) == IF "complete" \in DOMAIN block THEN {block.complete} ELSE { }

\* C18: every tool-call segment carries a completeness mark: complete when its
\* closing tag was matched, incomplete when it was emitted because the input ended.
C18_CallsCarryCompletenessMark ==
    pc = "returned" =>
        \A i \in 1..Len(content_blocks) :
            content_blocks[i].type = TOOL_CALL =>
                CompleteMark(content_blocks[i]) =
                    {~(i = Len(content_blocks) /\ current_tool # None)}

RECURSIVE ExpectedFrom(_, _)
ExpectedFrom(inter, i) ==
    IF i > Len(inter.calls) THEN << >>
    ELSE <<ToolBlock(inter.calls[i].tool_name, inter.calls[i].args),
           TextBlock(inter.texts[i + 1])>> \o ExpectedFrom(inter, i + 1)

\* C19: a response T0 C1 T1 ... Cn Tn of non-empty texts and well-formed tool calls
\* yields, in input order, one text segment per Ti with its text verbatim and one
\* tool-call segment per Ci, and nothing else.
C19_InterleavingKeepsOrder ==
    pc # "scan" =>
        \A inter \in Interleavings :
            response = InterleavedText(inter) =>
                /\ pc = "returned"
                /\ content_blocks = <<TextBlock(inter.texts[1])>> \o ExpectedFrom(inter, 1)

\* C20: a response that is one well-formed tool call and nothing else yields exactly
\* one tool-call segment with the tool's name and the given name-value pairs, and no
\* text segment.
C20_SingleCallYieldsOneSegment ==
    pc # "scan" =>
        \A call \in WellFormedCalls :
            response = CallText(call) =>
                /\ pc = "returned"
                /\ content_blocks = <<ToolBlock(call.tool_name, call.args)>>

(***************************************************************************)
(* Properties of Agent.invoke (AgentSpec).                                 *)
(***************************************************************************)

C14_LoopEndsOnlyOnAcceptedCompletion ==
    /\ (agent_pc = "exited"
        /\ exit_cause \notin {"blank", "interrupt", "KeyboardInterrupt", "LLMError", "ToolError"})
           => (exit_cause = "completed" /\ is_task_completed)
    /\ (agent_pc = "model" /\ llm_requests > 0) => ~is_task_completed

\* C15: a KeyboardInterrupt delivered while the loop of Agent.invoke runs (waiting for
\* the model, while a tool executes, or between steps) ends the loop: no further model
\* turn is requested and the teardown runs (terminal session released, status printed).
C15_InterruptEndsLoopWithTeardown ==
    [][(interrupts' # interrupts /\ agent_pc # "prompted")
       => /\ agent_pc' = "exited"
          /\ exit_cause' = "interrupt"
          /\ ~terminal_session'
          /\ cleanups' = cleanups + 1
          /\ status_printed']_vars

\* the positions of the tool-call blocks of the iteration
CallIndices == {i \in 1..Len(turn_blocks) : turn_blocks[i].type = TOOL_CALL}
StartEvents == SelectSeq(events, LAMBDA e : e.ev = "start")

\* C16: within one iteration the steps are totally ordered and never overlap: the model
\* turn comes first, the tool calls are dispatched one at a time in the order of their
\* blocks, each returning before the next step, then the ai message and the result are
\* stored, and only then the next model invocation is made.
C16_IterationStepsTotallyOrdered ==
    /\ (agent_pc = "model" /\ events # << >>) => events[Len(events)].ev = "result"
    /\ (running_tool # None) <=> (events # << >> /\ events[Len(events)].ev = "start")
    /\ (running_tool # None) => agent_pc \in {"running", "polling", "exited", "finished"}
    /\ \A j \in 1..Len(events) :
          /\ (events[j].ev = "model") <=> (j = 1)
          /\ events[j].ev = "start" =>
                (j < Len(events) => events[j + 1] = Event("end", events[j].block))
          /\ events[j].ev = "end" => events[j - 1] = Event("start", events[j].block)
          /\ events[j].ev = "ai" =>
                /\ \A h \in 1..(j - 1) : events[h].ev \in {"model", "start", "end"}
                /\ events[j - 1].ev # "start"
                /\ Len(SelectSeq(SubSeq(events, 1, j), LAMBDA e : e.ev = "start"))
                      = Cardinality(CallIndices)
          /\ events[j].ev = "result" => (j = Len(events) /\ events[j - 1].ev = "ai")
    /\ \A n \in 1..Len(StartEvents) :
          /\ StartEvents[n].block \in CallIndices
          /\ Cardinality({i \in CallIndices : i < StartEvents[n].block}) = n - 1

\* an iteration with two tool calls ran to its end
C16_Witness ==
    /\ Len(StartEvents) = 2
    /\ events[Len(events)].ev = "result"
    /\ agent_pc = "model"



(***************************************************************************)
(* Properties of ContextManager.get_context, of the rendered content and   *)
(* of the token counters (ContextSpec).                                    *)
(***************************************************************************)
\* one turn as get_context shows it: label, rendered content and, for an ai message
\* carrying a tool call, the serialized call after a blank line
TurnText(msg) ==
    Role(msg.type) \o <<":", "\n">> \o msg.compressed_content
    \o (IF msg.type = "ai" /\ msg.metadata.tool_call # {}
        THEN <<"\n", "\n">> \o ToolString(CHOOSE c \in msg.metadata.tool_call : TRUE)
        ELSE << >>)

\* the turns still in the history, in the order of the add_message calls that made them
RECURSIVE TurnTexts(_, _)
TurnTexts(log, history) ==
    IF log = << >> THEN << >>
    ELSE (IF Head(log).msg_id \in HistoryIds(history)
          THEN <<TurnText(Message(history, Head(log).msg_id))>>
          ELSE << >>)
         \o TurnTexts(Tail(log), history)

\* C22: what get_context returns is the surviving turns in the order they were added,
\* separated by blank lines, each as its role label, ":", a line break and its rendered
\* content, an ai turn that carries a tool call being followed by the serialized call
\* before the next turn.
C22_ContextListsTurnsInAppendOrder ==
    reads > 0 => full_context = Join(TurnTexts(call_log, context_history), <<"\n", "\n">>)

\* get_context has run after a pruning call on a history in which an ai turn with a
\* tool call is followed by another turn
C22_Witness ==
    /\ reads > 0
    /\ call_log # << >>
    /\ call_log[Len(call_log)].goal = {TRUE}
    /\ \E i \in 1..(Len(context_history) - 1) :
          /\ context_history[i].type = "ai"
          /\ context_history[i].metadata.tool_call # {}
          /\ context_history[i].compressed_content # context_history[i].original_content

\* C23: a get_context call changes neither the history, the ledger, the last-message
\* pointer nor the counters, and a second call with no add_message in between returns
\* what the first returned.
C23_GetContextIsPureRead ==
    [][reads' = reads + 1 =>
          /\ UNCHANGED <<context_history, pending_failed_tool_calls, last_message_id,
                         uncompressed_tokens, compressed_tokens>>
          /\ (reads >= 1 => full_context' = full_context)]_vars

\* get_context has run twice right after a pruning add_message
C23_Witness ==
    /\ reads = 2
    /\ call_log # << >>
    /\ call_log[Len(call_log)].goal = {TRUE}
    /\ Len(context_history) >= 2

\* the message stored by the last add_message call, when it returned
LastStored == Message(context_history, call_log[Len(call_log)].msg_id)
LastReturned == call_log # << >> /\ call_log[Len(call_log)].outcome = "ok"

\* C25 as stated: a system, user or tool turn is rendered as its raw content; an ai
\* turn is rendered as the (stripped) answer of the summarize call when compression is
\* on and the content is not the empty string, and as its raw content otherwise, the
\* llm being asked in the first case only.
C25_SummarizedUnlessEmpty ==
    LastReturned =>
       IF LastStored.type = "ai" /\ compress_on_add /\ LastStored.original_content # << >>
       THEN /\ call_log[Len(call_log)].summary # {}
            /\ \A answer \in call_log[Len(call_log)].summary :
                  LastStored.compressed_content = Strip(answer)
       ELSE /\ call_log[Len(call_log)].summary = {}
            /\ LastStored.compressed_content = LastStored.original_content

\* C25 amended: as above, with "not the empty string" replaced by "not blank": an ai
\* turn of white space only is rendered as its raw content and the llm is not asked.
C25_SummarizedUnlessBlank ==
    LastReturned =>
       IF LastStored.type = "ai" /\ compress_on_add
          /\ \E i \in 1..Len(LastStored.original_content) :
                LastStored.original_content[i] \notin {" ", "\n", "\t"}
       THEN /\ call_log[Len(call_log)].summary # {}
            /\ \A answer \in call_log[Len(call_log)].summary :
                  LastStored.compressed_content = Strip(answer)
       ELSE /\ call_log[Len(call_log)].summary = {}
            /\ LastStored.compressed_content = LastStored.original_content

\* an ai turn of white space has been added with compression on
C25_Witness ==
    /\ LastReturned
    /\ compress_on_add
    /\ LastStored.type = "ai"
    /\ LastStored.original_content = <<" ">>

\* C27: no add_message call, pruning or not, decreases uncompressed_tokens or
\* compressed_tokens.
C27_CountersNeverDecrease ==
    [][/\ uncompressed_tokens' >= uncompressed_tokens
       /\ compressed_tokens' >= compressed_tokens]_vars

\* a pruning call has left the counters above the words of the history
C27_Witness ==
    /\ call_log # << >>
    /\ call_log[Len(call_log)].goal = {TRUE}
    /\ uncompressed_tokens > OriginalWords(context_history)
    /\ compressed_tokens > CompressedWords(context_history)


(***************************************************************************)
(* Properties of the message ids (IdSpec).                                 *)
(***************************************************************************)
\* C24: no add_message call is given an id that an earlier call was given, so that
\* storing the new message never replaces a message of the history.
C24_TurnIdsNeverRepeat ==
    \A i, j \in 1..Len(call_log) : i # j => call_log[i].msg_id # call_log[j].msg_id

\* C26: a pruning add_message call (classified successful, goal achieved) returns,
\* clears the ledger and leaves in the history none of the turns the ledger referenced
\* other than the first assistant turn, also when an id of the list was already
\* missing at its turn; the new message is stored.
C26_MissingLedgerTurnIsSkipped ==
    [][(Len(call_log') = Len(call_log) + 1 /\ call_log'[Len(call_log')].goal = {TRUE}) =>
          LET call == call_log'[Len(call_log')]
              referenced ==
                  {pending_failed_tool_calls[i][2] : i \in 1..Len(pending_failed_tool_calls)}
                  \cup {pending_failed_tool_calls[i][1] : i \in 2..Len(pending_failed_tool_calls)}
          IN  /\ call.outcome = "ok"
              /\ pending_failed_tool_calls' = << >>
              /\ \A i \in 1..Len(context_history') :
                    context_history'[i].id \in referenced => context_history'[i].id = call.msg_id
              /\ \E i \in 1..Len(context_history') :
                    /\ context_history'[i].id = call.msg_id
                    /\ context_history'[i].type = "tool"]_vars

\* a pruning call has returned in which an id of the deletion list was missing at its
\* turn
C26_Witness ==
    /\ call_log # << >>
    /\ call_log[Len(call_log)].outcome = "ok"
    /\ call_log[Len(call_log)].goal = {TRUE}
    /\ call_log[Len(call_log)].skipped > 0


(***************************************************************************)
(* Properties of the tools (AgentSpec, ToolSpec).                          *)
(***************************************************************************)
\* C29: when a shell call is marked requires_approval = true, the command goes to the
\* terminal session only if the user's answer is an approval (y or yes); after any
\* other answer the call returns the denial message and nothing is sent.
C29_CommandSentOnlyWhenApproved ==
    [][(/\ agent_pc = "running"
        /\ running_tool.tool = shell
        /\ Lower(DictGet(running_tool.params, requires_approval)) = <<"t", "r", "u", "e">>
        /\ agent_pc' \in {"polling", "dispatch"}) =>
          IF \E answer \in ip' : Lower(answer) \in {<<"y">>, <<"y", "e", "s">>}
          THEN agent_pc' = "polling"
          ELSE /\ agent_pc' = "dispatch"
               /\ tool_response' = tool_response \o DeniedText \o <<"\n", "\n">>]_vars

\* C28: when invoke_tool is given a tool call whose name is not in the registry, it
\* returns the string "Tool '<name>' not found." and raises nothing; no tool is called, no
\* file is opened or changed and no terminal session is created.
C28_UnregisteredToolIsNotFound ==
    [][\A block \in invoked' :
          (\A i \in 1..Len(TOOLS_DICT) : TOOLS_DICT[i].name # block.tool)
          => /\ tool_result' = Returned(NotFoundText(block.tool))
             /\ last_tool_call' = {}
             /\ file_opens' = << >>
             /\ files' = files
             /\ terminal_session' = terminal_session]_vars

\* invoke_tool was given a tool call with an unregistered name, in a working directory
\* that holds a file
C28_Witness ==
    /\ \E block \in invoked : \A i \in 1..Len(TOOLS_DICT) : TOOLS_DICT[i].name # block.tool
    /\ tool_result.kind = "returned"
    /\ \E path_str \in Paths : files[path_str].kind = "file"

IsPrefix(s, t) == Len(s) <= Len(t) /\ SubSeq(t, 1, Len(s)) = s

\* the case of the claim a call ReplaceInFileTool()(path, diff) falls in, "applied" when
\* at least one SEARCH block matches
ReplaceCase(fs, path_arg, diff_arg) ==
    IF path_arg.type # "str" \/ path_arg.str = << >> THEN "invalid path"
    ELSE IF diff_arg.type # "str" THEN "non-string diff"
    ELSE IF fs[path_arg.str].kind = "missing" THEN "missing file"
    ELSE IF fs[path_arg.str].kind # "file" THEN "not a file"
    ELSE IF ~fs[path_arg.str].readable THEN "read error"
    ELSE IF \A i \in 1..Len(diff_arg.str) : IsSpace(diff_arg.str[i]) THEN "empty diff"
    ELSE IF ParseDiffBlocks(diff_arg.str) = << >> THEN "no valid block"
    ELSE IF \A i \in 1..Len(ParseDiffBlocks(diff_arg.str)) :
                MatchOf(fs[path_arg.str].text, ParseDiffBlocks(diff_arg.str)[i].search, 0)
                    = << >>
    THEN "no match"
    ELSE "applied"

\* C30: a call of ReplaceInFileTool that applies no replacement returns a string, leaves
\* every file as it was and never opens a file for writing: the string starts with ERROR
\* for an invalid path, a diff that is no string, a missing file, a path that is no file,
\* a read error and a diff without a valid SEARCH/REPLACE block; it is the file's content
\* for an empty diff; it starts with NO_CHANGE_APPLIED when no SEARCH block matches.
C30_NoWriteWithoutReplacement ==
    [][\A call \in last_tool_call' :
          call.tool = replace_in_file
          => LET case == ReplaceCase(files, call.args[1], call.args[2])
             IN  case # "applied"
                 => /\ tool_result'.kind = "returned"
                    /\ files' = files
                    /\ \A i \in 1..Len(file_opens') : file_opens'[i].mode # "w"
                    /\ IF case = "empty diff"
                       THEN tool_result'.v = files[call.args[1].str].text
                       ELSE IF case = "no match"
                       THEN IsPrefix(<<"N", "O", "_", "C", "H", "A", "N", "G", "E", "_",
                                       "A", "P", "P", "L", "I", "E", "D">>, tool_result'.v)
                       ELSE IsPrefix(<<"E", "R", "R", "O", "R">>, tool_result'.v)]_vars

\* ReplaceInFileTool was called on a file it can read and write with a diff of valid
\* SEARCH/REPLACE blocks none of which matches, and returned
C30_Witness ==
    /\ \E call \in last_tool_call :
          /\ call.tool = replace_in_file
          /\ ReplaceCase(files, call.args[1], call.args[2]) = "no match"
          /\ files[call.args[1].str].writable
    /\ tool_result.kind = "returned"

\* the replacements were made in the order of the blocks, each at or after the end of the
\* one before it, and each put its text where it says
ReplacedInOrder(made, text_after) ==
    /\ \A k \in 1..Len(made) :
          /\ made[k].start <= made[k].end
          /\ made[k].start + Len(made[k].text) <= Len(text_after)
    /\ \A k \in 1..(Len(made) - 1) :
          /\ made[k].block < made[k + 1].block
          /\ made[k + 1].start >= made[k].start + Len(made[k].text)

OpenedForWriting(opens) == \E i \in 1..Len(opens) : opens[i].mode = "w"

ResultAppendedAfterCall ==
    /\ call_log' # call_log
    /\ call_log'[Len(call_log')].type = "tool"
    /\ call_log'[Len(call_log')].outcome = "ok"
    /\ PrecededByCall

\* C32: when a tool message is appended right after an ai message carrying a tool
\* call, the success judgment gives one answer, that answer is set as tool_successful
\* on the ai message and the tool message's is_response_to is the ai message's id; an
\* unsuccessful answer appends <<ai id, tool id>> to the end of the ledger and deletes
\* nothing; a successful answer with an empty ledger deletes nothing, leaves the
\* ledger empty and does not ask the goal judgment.
C32_LinkedResultIsClassifiedOnce ==
    [][ResultAppendedAfterCall =>
         LET entry == call_log'[Len(call_log')]
             nothing_deleted ==
                 /\ Len(context_history') = Len(context_history) + 1
                 /\ \A i \in 1..Len(context_history) :
                        context_history'[i].id = context_history[i].id
         IN  /\ entry.success \in {{TRUE}, {FALSE}}
             /\ last_message_id \in HistoryIds(context_history')
             /\ Message(context_history', last_message_id).type = "ai"
             /\ Message(context_history', last_message_id).metadata.tool_successful =
                    entry.success
             /\ context_history'[Len(context_history')].id = entry.msg_id
             /\ context_history'[Len(context_history')].type = "tool"
             /\ context_history'[Len(context_history')].metadata.is_response_to =
                    {last_message_id}
             /\ entry.success = {FALSE} =>
                    /\ pending_failed_tool_calls' =
                           Append(pending_failed_tool_calls,
                                  <<last_message_id, entry.msg_id>>)
                    /\ nothing_deleted
             /\ (entry.success = {TRUE} /\ pending_failed_tool_calls = << >>) =>
                    /\ pending_failed_tool_calls' = << >>
                    /\ nothing_deleted
                    /\ entry.goal = {}]_vars

\* a failed result has been appended and recorded in the ledger, and later a
\* successful one was appended while the ledger was empty
C32_Witness ==
    /\ \E i \in 1..Len(call_log) :
          /\ call_log[i].type = "tool"
          /\ call_log[i].outcome = "ok"
          /\ call_log[i].success = {FALSE}
    /\ LastCall.type = "tool"
    /\ LastCall.outcome = "ok"
    /\ LastCall.success = {TRUE}
    /\ LastCall.goal = {}
    /\ pending_failed_tool_calls = << >>

(***************************************************************************)
(* C33                                                                     *)
(***************************************************************************)
\* the add_message call of this step stored a message of the given type for an
\* iteration in which several tool calls were collected
StoredForSeveralCalls(type) ==
    /\ call_log' # call_log
    /\ call_log'[Len(call_log')].type = type
    /\ call_log'[Len(call_log')].outcome = "ok"
    /\ Len(tool_calls) >= 2

\* C33: an ai message added with several tool calls keeps the first of them only; all
\* the calls of the list were dispatched, in the order of the list, each adding its
\* result to the one aggregated output; that output is the content of the single tool
\* message, which is judged once, the answer being set on the ai message that holds
\* the first call, and the ledger is left as it was, emptied, or given the one pair of
\* the two messages; what get_context returns shows the stored call only.
C33_FirstCallStandsForTheTurn ==
    [][/\ StoredForSeveralCalls("ai") =>
             /\ context_history'[Len(context_history')].metadata.tool_call =
                    {tool_calls[1]}
             /\ Len(StartEvents) = Len(tool_calls)
             /\ Len(SelectSeq(events, LAMBDA e : e.ev = "end")) = Len(tool_calls)
             /\ \A n \in 1..Len(tool_calls) :
                   /\ tool_calls[n].tool_name = turn_blocks[StartEvents[n].block].tool
                   /\ tool_calls[n].args = turn_blocks[StartEvents[n].block].params
                   /\ n > 1 => StartEvents[n - 1].block < StartEvents[n].block
       /\ StoredForSeveralCalls("tool") =>
             LET entry == call_log'[Len(call_log')]
                 stored == context_history'[Len(context_history')]
             IN  /\ Message(context_history, last_message_id).metadata.tool_call =
                        {tool_calls[1]}
                 /\ stored.type = "tool"
                 /\ stored.original_content = Strip(tool_response)
                 /\ stored.metadata.is_response_to = {last_message_id}
                 /\ Cardinality({i \in 1..Len(context_history') :
                        context_history'[i].metadata.is_response_to =
                            {last_message_id}}) = 1
                 /\ entry.success \in {{TRUE}, {FALSE}}
                 /\ Message(context_history', last_message_id).metadata.tool_successful =
                        entry.success
                 /\ pending_failed_tool_calls' \in
                        {pending_failed_tool_calls,
                         Append(pending_failed_tool_calls,
                                <<last_message_id, entry.msg_id>>),
                         << >>}
       /\ (Len(events') > Len(events) /\ events'[Len(events')].ev = "end") =>
             /\ IsPrefix(tool_response, tool_response')
             /\ Len(tool_response') >= Len(tool_response) + 2
       /\ (Len(events') > Len(events) /\ events'[Len(events')].ev \in {"start", "ai"}) =>
             tool_response' = tool_response
       /\ reads' = reads + 1 =>
             full_context' = Join([i \in 1..Len(context_history) |->
                                      TurnText(context_history[i])], <<"\n", "\n">>)]_vars

\* the tool message of an iteration with two dispatched calls has been stored and
\* judged, and the context was rendered for the next iteration
C33_Witness ==
    /\ \E i \in 1..(Len(context_history) - 1) :
          /\ context_history[i].type = "ai"
          /\ context_history[i].metadata.tool_call = {ReadFileCall}
          /\ context_history[i].metadata.tool_successful # {}
          /\ context_history[i + 1].type = "tool"
          /\ Len(context_history[i + 1].original_content) > Len(CommandOutputPrefix)
    /\ Len(tool_calls) = 2
    /\ tool_calls[2].tool_name = shell
    /\ agent_pc = "dispatch"
    /\ reads = 1

(***************************************************************************)
(* C34                                                                     *)
(***************************************************************************)
\* the blocks of the current iteration that call attempt_completion
CompletionIndices == {i \in CallIndices : turn_blocks[i].tool = attempt_completion}

\* the iteration of the last model turn is over: its messages are being stored or
\* invoke has ended otherwise than by an interrupt or a failed model request
TurnOver ==
    /\ llm_requests > 0
    /\ agent_pc \in {"store_result", "exited", "finished"}
    /\ exit_cause \notin {"interrupt", "KeyboardInterrupt", "LLMError"}

\* C34: within one model turn no tool call placed after an attempt_completion call is
\* dispatched or put in tool_calls, whatever the user answered, and a turn that holds
\* an attempt_completion call is over only after the calls placed before it and the
\* attempt_completion call itself were dispatched, in that order.
C34_CompletionEndsDispatch ==
    /\ \A i \in CompletionIndices :
          /\ \A n \in 1..Len(StartEvents) : StartEvents[n].block <= i
          /\ Len(tool_calls) <= Cardinality({j \in CallIndices : j <= i})
    /\ (TurnOver /\ Find(response, StartTag(attempt_completion), 0) >= 0) =>
          \E n \in 1..Len(StartEvents) :
             /\ StartEvents[n].block \in CompletionIndices
             /\ n = Cardinality({j \in CallIndices : j <= StartEvents[n].block})

(***************************************************************************)
(* C35                                                                     *)
(***************************************************************************)
\* C35: Agent.invoke adds a tool message only right after the ai message of the same
\* iteration, and only when that message carries a tool call and the aggregated output
\* is not blank; an iteration without tool call, or whose tools returned only blank
\* output, adds a user message instead; the success judgment is asked only in
\* add_message calls for a tool message that follows an ai message with a tool call.
C35_ResultTurnsFollowCalls ==
    [][call_log' # call_log =>
         LET entry == call_log'[Len(call_log')]
         IN  /\ entry.type = "tool" =>
                   /\ agent_pc = "store_result"
                   /\ tool_calls # << >>
                   /\ Strip(tool_response) # << >>
                   /\ context_history[Len(context_history)].id = last_message_id
                   /\ context_history[Len(context_history)].type = "ai"
                   /\ context_history[Len(context_history)].metadata.tool_call =
                          {tool_calls[1]}
                   /\ entry.outcome \in {"ok", "LLMError"}
                   /\ entry.outcome = "ok" =>
                         /\ entry.success # {}
                         /\ context_history'[Len(context_history')].id = entry.msg_id
                         /\ context_history'[Len(context_history') - 1].id =
                                last_message_id
             /\ (agent_pc = "store_result"
                 /\ (tool_calls = << >> \/ Strip(tool_response) = << >>)) =>
                   /\ entry.type = "user"
                   /\ entry.outcome = "ok"
                   /\ context_history' =
                          Append(context_history,
                                 NewMessage(entry.msg_id,
                                            [type |-> "user",
                                             content |-> Strip(tool_response')]))
             /\ entry.type # "tool" => (entry.success = {} /\ entry.goal = {})]_vars

\* a run in which an iteration with a tool call of blank output was followed by a user
\* message, and a later iteration's tool output was stored and judged
C35_Witness ==
    /\ \E i \in 1..(Len(call_log) - 1) :
          /\ call_log[i].type = "ai"
          /\ call_log[i].has_call
          /\ call_log[i + 1].type = "user"
    /\ LastCall.type = "tool"
    /\ LastCall.success # {}
    /\ agent_pc = "model"

(***************************************************************************)
(* C36                                                                     *)
(***************************************************************************)
\* C36: after every add_message call _last_message_id is the id of the last message
\* of the history (None only while the history is empty); a call that returns leaves
\* it at the message just added; a call that prunes deletes neither the message
\* _last_message_id referred to when the call began nor the message being added.
C36_PointerIsLastTurn ==
    [][call_log' # call_log =>
         LET entry == call_log'[Len(call_log')]
         IN  /\ (last_message_id' = NoId) <=> (context_history' = << >>)
             /\ context_history' # << >> =>
                   context_history'[Len(context_history')].id = last_message_id'
             /\ entry.outcome = "ok" =>
                   /\ last_message_id' = entry.msg_id
                   /\ Cardinality({i \in 1..Len(context_history') :
                          context_history'[i].id = entry.msg_id}) = 1
             /\ entry.outcome # "ok" => last_message_id' = last_message_id
             /\ last_message_id # NoId =>
                   last_message_id \in HistoryIds(context_history')]_vars

\* a call has pruned three messages of a history of six and added its own
C36_Witness ==
    /\ call_log # << >>
    /\ LastCall.outcome = "ok"
    /\ LastCall.goal = {TRUE}
    /\ Len(call_log) = 6
    /\ Len(context_history) = 3
    /\ context_history[3].id = last_message_id

(***************************************************************************)
(* C37                                                                     *)
(***************************************************************************)
\* the sessions created so far whose cleanup has not run
LiveSessions(created) == {i \in 1..Len(created) : created[i] = 0}

\* C37: the agent holds at most one terminal session: a shell dispatch creates one only
\* when none is held and otherwise uses the one held; every cleanup leaves the agent
\* holding none, having run the cleanup of the held session once; no session's
\* cleanup ever runs twice, and the cleanup main.py makes after the loop's own ends
\* normally.
C37_OneTerminalSession ==
    [][/\ LiveSessions(sessions') =
             (IF terminal_session' THEN {Len(sessions')} ELSE {})
       /\ \A i \in 1..Len(sessions') : sessions'[i] <= 1
       /\ (Len(tool_calls') = Len(tool_calls) + 1
           /\ tool_calls'[Len(tool_calls')].tool_name = shell
           /\ exit_cause' # "EnvironmentError") =>
             /\ terminal_session'
             /\ sessions' = IF terminal_session THEN sessions ELSE Append(sessions, 0)
       /\ cleanups' # cleanups =>
             /\ cleanups' = cleanups + 1
             /\ ~terminal_session'
             /\ Len(sessions') = Len(sessions)
             /\ \A i \in 1..Len(sessions) :
                   sessions'[i] = IF i \in LiveSessions(sessions) THEN 1 ELSE sessions[i]
             /\ agent_pc' \in {"exited", "finished"}
       /\ sessions' # sessions => (tool_calls' # tool_calls \/ cleanups' # cleanups)
       /\ (agent_pc = "exited" /\ agent_pc' # agent_pc) =>
             (agent_pc' = "finished" /\ cleanups' = cleanups + 1
              /\ exit_cause' = exit_cause)]_vars

\* the session created in an earlier iteration was used again by a second shell
\* dispatch, released by the interrupt handler's cleanup, and main.py's cleanup ran
\* after it
C37_Witness ==
    /\ agent_pc = "finished"
    /\ cleanups = 2
    /\ sessions = <<1>>
    /\ Len(tool_calls) = 2
    /\ tool_calls[2].tool_name = shell
    /\ \E i \in 1..Len(context_history) :
          /\ context_history[i].type = "ai"
          /\ context_history[i].metadata.tool_call = {ReadFileCall}

(***************************************************************************)
(* C38                                                                     *)
(***************************************************************************)
\* the parameter names a tool class declares as required
DeclaredRequired(name) ==
    IF ToolOf(name).params.kind = "dict"
    THEN ToolOf(name).params.required
    ELSE ToolOf(name).params.items

\* a call of a registered tool without one of its declared required parameters
LacksRequired(block) ==
    /\ Registered(block.tool)
    /\ \E i \in 1..Len(DeclaredRequired(block.tool)) :
          ~DictHas(block.params, DeclaredRequired(block.tool)[i])

\* C38: when the loop dispatches a call of a registered tool that lacks one of the
\* tool's declared required parameters (and a terminal session, if needed, could be
\* created), invoke_tool returns the missing-parameter message, which is added to the
\* iteration's output, the tool is not executed and nothing is raised.
C38_MissingArgumentIsReported ==
    [][(/\ agent_pc = "dispatch"
        /\ Len(tool_calls') = Len(tool_calls) + 1
        /\ LacksRequired(turn_blocks[block_index])
        /\ exit_cause' # "EnvironmentError")
       => /\ exit_cause' = exit_cause
          /\ agent_pc' = "dispatch"
          /\ running_tool' = None
          /\ tool_response' =
                tool_response \o MissingParameterText \o <<"\n", "\n">>]_vars

(***************************************************************************)
(* C39                                                                     *)
(***************************************************************************)
\* the texts that stand between a start marker and an end marker of the pane, no start
\* marker standing between them
BetweenMarkers(pane_text) ==
    LET shown == Cleaned(pane_text)
        pairs == {ij \in (0..Len(shown)) \X (0..Len(shown)) :
                     /\ StartsAt(shown, ij[1], StartMarker)
                     /\ StartsAt(shown, ij[2], EndMarker)
                     /\ ij[1] + Len(StartMarker) <= ij[2]}
    IN  {text \in {SubSeq(shown, ij[1] + Len(StartMarker) + 1, ij[2]) : ij \in pairs} :
            Find(text, StartMarker, 0) = -1}

\* C39: send_command_and_capture never raises and makes at most max_wait /
\* poll_interval = 300 capture-pane calls; the poll that shows both markers ends the
\* call, which returns the stripped text between them; a call that ends otherwise
\* returns the time-out message, and captured text is returned only from a pane
\* showing both markers.
C39_CaptureReturnsOutputOrTimeout ==
    [][/\ capture_pc' # "raised"
       /\ polls' <= max_wait \div poll_interval
       /\ polls' <= 300
       /\ (polls' = polls + 1 /\ last_pane_dump' # last_pane_dump
           /\ BothMarkersIn(last_pane_dump')) =>
             (capture_pc' = "returned" /\ found_end')
       /\ (capture_pc = "polling" /\ capture_pc' = "returned") =>
             IF found_end'
             THEN /\ BothMarkersIn(last_pane_dump')
                  /\ last_pane_dump' # last_pane_dump \/ polls' = polls + 1
                  /\ \E text \in BetweenMarkers(last_pane_dump') :
                        captured_output' = Strip(text)
             ELSE captured_output' = CaptureTimeoutText]_vars

\* C40: a tool call written by _tool_string and read back by parse_ai_response gives
\* one tool-call block and nothing else, with the call's tool name and the call's
\* argument names and values in the call's order, for every registered tool and all
\* declared arguments whose values do not hold their own closing tag; the parser does
\* not raise on it.
C40_SerializedCallParsesBack ==
    \A tool_call \in SerializedCalls :
       response = ToolString(tool_call) =>
          /\ pc # "raised"
          /\ pc = "returned" =>
                content_blocks = <<ToolBlock(tool_call.tool_name, tool_call.args)>>

====
